---------------------------- MODULE Spec2Model ----------------------------
(***************************************************************************)
(* Model of the report dashboard: the ReportGrid component                  *)
(* (app/ui/dashboard/report-grid.tsx), the tab navigation and the report    *)
(* store (app/lib/data/data.ts).                                            *)
(*                                                                          *)
(* Strings are sequences of one-character strings, so that toLowerCase,     *)
(* includes, trim and split are computed and not assumed.  A value of type  *)
(* T | null is a set with at most one element: {} is null, {v} is v.        *)
(* A date string "<day>T<time>" is the record [d |-> day, t |-> time].      *)
(***************************************************************************)
EXTENDS Integers, Sequences, FiniteSets, TLC

----------------------------------------------------------------------------
(* Bounds of the model *)

\* longest record list handed to a pure function
MaxLen == 3
\* getReportsByFolder calls in flight at one time
MaxLoads == 1
\* toggleReportStatus calls in flight at one time
MaxCalls == 1
\* cap of the grid's and the modal's page counter
MaxPage == 3
\* getReportCSV calls in flight at one time
MaxCsvCalls == 1
\* rows of the table that is paginated on its own
MaxRows == 15
\* getReportsByFolder calls in flight at one time, where loads race
MaxRaceLoads == 2
\* toggleReportStatus calls in flight at one time, where writers race
MaxRaceCalls == 2
\* lines of a CSV text handed to parseCSV, the header line included
MaxLines == 5

----------------------------------------------------------------------------
(* Nullable values *)

None == {}
Some(x) == {x}
The(o) == CHOOSE x \in o : TRUE

----------------------------------------------------------------------------
(* Strings *)

ToLowerChar(c) ==
  CASE c = "A" -> "a"
    [] c = "B" -> "b"
    [] c = "R" -> "r"
    [] c = "X" -> "x"
    [] OTHER -> c

\* String.prototype.toLowerCase
toLowerCase(s) == [i \in 1..Len(s) |-> ToLowerChar(s[i])]

\* String.prototype.includes: t occurs in s at some offset
includes(s, t) ==
  \E i \in 0..(Len(s) - Len(t)) : SubSeq(s, i + 1, i + Len(t)) = t

\* Array.prototype.includes
arrayIncludes(arr, x) == \E i \in 1..Len(arr) : arr[i] = x

\* collation order of the characters used: space, digits, then letters, case
\* ignored
Collation ==
  <<" ", "0", "1", "2", "3", "4", "5", "6", "7", "8", "9",
    "a", "b", "c", "e", "k", "o", "p", "r", "t", "v", "x", "y">>
PrimaryWeight(c) == CHOOSE i \in 1..Len(Collation) : Collation[i] = ToLowerChar(c)
\* at equal letters, lower case sorts before upper case
TertiaryWeight(c) == IF ToLowerChar(c) = c THEN 0 ELSE 1

Sign(n) == IF n < 0 THEN -1 ELSE IF n > 0 THEN 1 ELSE 0
MinOf(S) == CHOOSE x \in S : \A y \in S : x <= y

LevelCompare(a, b, Weight(_)) ==
  LET n == IF Len(a) < Len(b) THEN Len(a) ELSE Len(b)
      D == {i \in 1..n : Weight(a[i]) # Weight(b[i])}
  IN  IF D = {} THEN Sign(Len(a) - Len(b))
      ELSE IF Weight(a[MinOf(D)]) < Weight(b[MinOf(D)]) THEN -1 ELSE 1

\* String.prototype.localeCompare: letters first, case as the tie-break
localeCompare(a, b) ==
  LET p == LevelCompare(a, b, PrimaryWeight)
  IN  IF p # 0 THEN p ELSE LevelCompare(a, b, TertiaryWeight)

----------------------------------------------------------------------------
(* Dates *)

\* new Date(date).getTime(): two time ticks per day
getTime(date) == date.d * 2 + date.t

\* date.split('T')[0]
dateKey(date) == date.d

\* Number(boolean)
Number(b) == IF b THEN 1 ELSE 0

----------------------------------------------------------------------------
(* The view-model pipeline: pure functions of report-grid.tsx *)

matchesSearch(report, searchTerm) ==
  searchTerm = <<>> \/ includes(toLowerCase(report.name), toLowerCase(searchTerm))

\* !tagFilter: null and the empty string both count as no filter
matchesTag(report, tagFilter) ==
  (tagFilter = None \/ The(tagFilter) = <<>>) \/ arrayIncludes(report.tags, The(tagFilter))

matchesStatus(report, statusFilter) ==
  statusFilter = None \/ report.isActive = The(statusFilter)

\* a filter that joins the three predicates with OR
filterKeepsAny(report, searchTerm, tagFilter, statusFilter) ==
  matchesSearch(report, searchTerm) \/ matchesTag(report, tagFilter)
    \/ matchesStatus(report, statusFilter)

filterKeeps(report, searchTerm, tagFilter, statusFilter) ==
  /\ matchesSearch(report, searchTerm)
  /\ matchesTag(report, tagFilter)
  /\ matchesStatus(report, statusFilter)

filterReports(rs, searchTerm, tagFilter, statusFilter) ==
  SelectSeq(rs, LAMBDA r : filterKeeps(r, searchTerm, tagFilter, statusFilter))


\* the comparator handed to Array.prototype.sort by sortReports
compareReports(a, b, field, direction) ==
  CASE field = "name" ->
         IF direction = "asc" THEN localeCompare(a.name, b.name)
         ELSE localeCompare(b.name, a.name)
    [] field = "date" ->
         IF direction = "asc" THEN getTime(a.date) - getTime(b.date)
         ELSE getTime(b.date) - getTime(a.date)
    [] field = "status" ->
         IF direction = "asc" THEN Number(a.isActive) - Number(b.isActive)
         ELSE Number(b.isActive) - Number(a.isActive)
    [] OTHER -> 0

\* an insertion that puts x before the elements it compares equal to
insertBeforeEqual(sorted, x, field, direction) ==
  LET le == {j \in 1..Len(sorted) : compareReports(sorted[j], x, field, direction) < 0}
      k  == IF le = {} THEN 0 ELSE CHOOSE j \in le : \A i \in le : i <= j
  IN  SubSeq(sorted, 1, k) \o <<x>> \o SubSeq(sorted, k + 1, Len(sorted))

\* one step of the stable sort: x goes after every element that is not greater
insertStable(sorted, x, field, direction) ==
  LET le == {j \in 1..Len(sorted) : compareReports(sorted[j], x, field, direction) <= 0}
      k  == IF le = {} THEN 0 ELSE CHOOSE j \in le : \A i \in le : i <= j
  IN  SubSeq(sorted, 1, k) \o <<x>> \o SubSeq(sorted, k + 1, Len(sorted))

RECURSIVE arraySort(_, _, _)
\* Array.prototype.sort with the comparator above (stable since ES2019)
arraySort(rs, field, direction) ==
  IF rs = <<>> THEN <<>>
  ELSE insertStable(arraySort(SubSeq(rs, 1, Len(rs) - 1), field, direction),
                    rs[Len(rs)], field, direction)

sortReports(rs, sort) ==
  IF sort.field = "null" \/ sort.direction = "null" THEN rs
  ELSE arraySort(rs, sort.field, sort.direction)

PAGE_SIZE_OPTIONS == <<"5", "10", "50", "100", "All">>

\* Number(e.target.value) of a page-size option
pageSizeNumber(size) ==
  CASE size = "5" -> 5 [] size = "10" -> 10 [] size = "50" -> 50 [] size = "100" -> 100

\* Array.prototype.slice(start, end) with 0-based, non-negative bounds
slice(arr, start, end) ==
  SubSeq(arr, start + 1, IF end < Len(arr) THEN end ELSE Len(arr))

\* a pagination that reads 'All' as page size 0
paginateAllAsZero(rows, size, page) ==
  IF size = "All" THEN <<>>
  ELSE slice(rows, (page - 1) * pageSizeNumber(size), page * pageSizeNumber(size))

\* a pagination that starts one page too far
paginateFromNextPage(rows, size, page) ==
  IF size = "All" THEN rows
  ELSE slice(rows, page * pageSizeNumber(size), (page + 1) * pageSizeNumber(size))

\* getPaginatedReports and getPaginatedData: the slice of one page
paginate(rows, size, page) ==
  IF size = "All" THEN rows
  ELSE LET startIndex == (page - 1) * pageSizeNumber(size)
           endIndex   == startIndex + pageSizeNumber(size)
       IN  slice(rows, startIndex, endIndex)

\* Math.ceil(count / size)
ceilDiv(count, size) == (count + size - 1) \div size

\* String.prototype.trim: drop the leading and the trailing spaces
trim(s) ==
  LET keep == {i \in 1..Len(s) : s[i] # " "}
  IN  IF keep = {} THEN <<>>
      ELSE SubSeq(s, MinOf(keep), CHOOSE j \in keep : \A i \in keep : i <= j)

----------------------------------------------------------------------------
(* The report store: structure.json *)

TagX == <<"x">>
TagY == <<"y">>

Entry(id, name, isActive, tags, d, t) ==
  [id |-> id, name |-> name, isActive |-> isActive, tags |-> tags,
   date |-> [d |-> d, t |-> t]]

\* the folders of structure.json when the page is first served
InitialStructure ==
  <<[id |-> "f1", name |-> "One",
     reports |-> <<Entry("r1", <<"b">>,      TRUE,  <<TagX>>,       2, 0),
                   Entry("r2", <<"A">>,      FALSE, <<TagX, TagY>>, 2, 1),
                   Entry("r3", <<"a">>,      TRUE,  <<>>,           1, 0),
                   Entry("r4", <<"B">>,      TRUE,  <<TagY>>,       1, 1),
                   Entry("r5", <<"a", "b">>, FALSE, <<>>,           2, 0),
                   Entry("r6", <<"a">>,      TRUE,  <<TagX>>,       1, 0)>>],
    [id |-> "f2", name |-> "Two",
     reports |-> <<Entry("r1", <<"b">>,      TRUE,  <<TagX>>,       2, 0),
                   Entry("r7", <<"t">>,      TRUE,  <<>>,           1, 0)>>]>>

\* a smaller structure.json: two folders that share report r1
SmallStructure ==
  <<[id |-> "f1", name |-> "One",
     reports |-> <<Entry("r1", <<"b">>, TRUE,  <<TagY>>, 2, 0),
                   Entry("r2", <<"A">>, FALSE, <<>>,     1, 1)>>],
    [id |-> "f2", name |-> "Two",
     reports |-> <<Entry("r3", <<"a">>, TRUE,  <<>>,     1, 0),
                   Entry("r1", <<"b">>, TRUE,  <<TagY>>, 2, 0)>>]>>

FolderIds == {"f1", "f2"}

NamePrefix == <<"R", "e", "p", "o", "r", "t", " ">>

\* structure.folders.find(f => f.id === folderId); None when there is none
findFolder(structure, folderId) ==
  LET hit == {i \in 1..Len(structure) : structure[i].id = folderId}
  IN  IF hit = {} THEN None ELSE Some(structure[MinOf(hit)])

\* getReportsByFolder on a structure that was read: the folder's reports as
\* Report records, [] for an unknown folder
reportsOfFolder(structure, folderId) ==
  LET folder == findFolder(structure, folderId)
  IN  IF folder = None THEN <<>>
      ELSE [i \in 1..Len(The(folder).reports) |->
             LET report == The(folder).reports[i]
             IN  [id |-> report.id, name |-> NamePrefix \o report.name,
                  isActive |-> report.isActive, tags |-> report.tags,
                  date |-> report.date]]

\* toggleReportStatus on a structure that was read: the status is set on
\* every entry with the id, in all folders
withStatus(structure, reportId, status) ==
  [f \in 1..Len(structure) |->
     [structure[f] EXCEPT !.reports =
        [i \in 1..Len(structure[f].reports) |->
           IF structure[f].reports[i].id = reportId
           THEN [structure[f].reports[i] EXCEPT !.isActive = status]
           ELSE structure[f].reports[i]]]]

----------------------------------------------------------------------------
(* Grouping *)

RECURSIVE sortAscending(_)
\* the date keys, oldest first
sortAscending(keys) ==
  IF keys = {} THEN <<>>
  ELSE LET low == CHOOSE k \in keys : \A j \in keys : k <= j
       IN  <<low>> \o sortAscending(keys \ {low})

RECURSIVE sortDescending(_)
\* the date keys, most recent first (dateB.localeCompare(dateA))
sortDescending(keys) ==
  IF keys = {} THEN <<>>
  ELSE LET top == CHOOSE k \in keys : \A j \in keys : j <= k
       IN  <<top>> \o sortDescending(keys \ {top})

\* a grouping keyed by the whole timestamp
groupByTimestamp(rs, searchTerm, tagFilter, statusFilter) ==
  LET filteredReports == filterReports(rs, searchTerm, tagFilter, statusFilter)
      times == {getTime(filteredReports[i].date) : i \in 1..Len(filteredReports)}
      order == sortDescending(times)
  IN  [g \in 1..Len(order) |->
         <<order[g], SelectSeq(filteredReports, LAMBDA r : getTime(r.date) = order[g])>>]

groupReportsByDate(rs, searchTerm, tagFilter, statusFilter) ==
  LET filteredReports == filterReports(rs, searchTerm, tagFilter, statusFilter)
      dates == {dateKey(filteredReports[i].date) : i \in 1..Len(filteredReports)}
      order == sortDescending(dates)
  IN  [g \in 1..Len(order) |->
         <<order[g], SelectSeq(filteredReports, LAMBDA r : dateKey(r.date) = order[g])>>]

----------------------------------------------------------------------------
(* State *)

VARIABLES
  store,               \* structure.json: the folders with their report entries
  loads,               \* getReportsByFolder calls in flight
  toggleCalls,         \* handleToggleActive calls in flight
  initialReports,      \* the reports prop: the default folder when the page was served
  currentFolder,       \* the folder of the URL
  reports,             \* useState: the reports in memory
  isLoading,
  groupByDate,
  expandedGroups,
  searchTerm,
  activeTagFilter,
  activeStatusFilter,
  sortState,
  gridPageSize,
  gridCurrentPage,
  newTag,
  tagReportId,
  selectedReport,
  csvData,
  csvSortField,
  csvSortDirection,
  csvFilter,
  pageSize,
  currentPage,
  csvCalls,            \* getReportCSV calls in flight
  sortRun,             \* history: clicks in a row on one sort header, from neutral,
                       \* with the reports and the filters unchanged
  fnOp,                \* the pure function applied last, in the function checks
  fnOut                \* its result

storeVars == <<store, loads, toggleCalls, initialReports>>
gridVars == <<currentFolder, reports, isLoading, groupByDate, expandedGroups,
              searchTerm, activeTagFilter, activeStatusFilter, sortState,
              gridPageSize, gridCurrentPage, newTag, tagReportId, sortRun>>
csvVars == <<selectedReport, csvData, csvSortField, csvSortDirection, csvFilter,
             pageSize, currentPage, csvCalls>>
fnVars == <<fnOp, fnOut>>
vars == <<storeVars, gridVars, csvVars, fnVars>>

\* the defaultFolder prop, computed by the page: folders[0]?.id
defaultFolder(structure) == structure[1].id

processedReports ==
  sortReports(filterReports(reports, searchTerm, activeTagFilter, activeStatusFilter),
              sortState)

groupedReports ==
  groupReportsByDate(reports, searchTerm, activeTagFilter, activeStatusFilter)

\* the report rows on screen: the expanded groups, or the page of the flat table
renderedReports ==
  IF groupByDate
  THEN SelectSeq(filterReports(reports, searchTerm, activeTagFilter, activeStatusFilter),
                 LAMBDA r : dateKey(r.date) \in expandedGroups)
  ELSE paginate(processedReports, gridPageSize, gridCurrentPage)

rendered(r) == ~isLoading /\ arrayIncludes(renderedReports, r)

\* getAllTags(reports): the options of the tag filter
getAllTags(rs) == UNION {{rs[i].tags[j] : j \in 1..Len(rs[i].tags)} : i \in 1..Len(rs)}

filterCtl == <<searchTerm, activeTagFilter, activeStatusFilter>>
pageCtl == <<gridPageSize, gridCurrentPage>>
groupCtl == <<groupByDate, expandedGroups>>
tagInput == <<newTag, tagReportId>>
sortCtl == <<sortState, sortRun>>

removeAt(seq, i) == SubSeq(seq, 1, i - 1) \o SubSeq(seq, i + 1, Len(seq))

\* what the user types into the search box and into the new-tag input
SearchInputs == {<<>>, <<"A">>, <<"t", " ", "b">>}
TagInputs == {<<" ">>, <<"x">>, <<" ", "y", " ">>}

----------------------------------------------------------------------------
(* Folder loads: tab-navigation.tsx and the fetchReports effect *)

\* handleTabChange(folderId): the URL changes, the effect starts fetchReports
TabChangeUpTo(folderId, limit) ==
  /\ folderId # currentFolder
  /\ Len(loads) < limit
  /\ currentFolder' = folderId
  /\ isLoading' = TRUE
  /\ loads' = Append(loads, [folder |-> folderId, pc |-> "request", data |-> <<>>])
  /\ UNCHANGED <<store, initialReports, toggleCalls, reports, filterCtl, pageCtl, groupCtl, tagInput,
                 sortCtl, csvVars, fnVars>>

TabChange(folderId) == TabChangeUpTo(folderId, MaxLoads)

\* getReportsByFolder runs on the server and reads structure.json and the CSVs
LoadServer(i) ==
  /\ loads[i].pc = "request"
  /\ loads' = [loads EXCEPT ![i] = [@ EXCEPT !.pc = "response",
                 !.data = reportsOfFolder(store, loads[i].folder)]]
  /\ UNCHANGED <<store, initialReports, toggleCalls, gridVars, csvVars, fnVars>>

\* a read fails on the server: the catch of getReportsByFolder returns []
LoadServerFails(i) ==
  /\ loads[i].pc = "request"
  /\ loads' = [loads EXCEPT ![i] = [@ EXCEPT !.pc = "response", !.data = <<>>]]
  /\ UNCHANGED <<store, initialReports, toggleCalls, gridVars, csvVars, fnVars>>

\* a fetchReports that drops the response of a folder that is not current
LoadDoneIfCurrent(i) ==
  /\ loads[i].pc = "response"
  /\ reports' = IF loads[i].folder = currentFolder THEN loads[i].data ELSE reports
  /\ isLoading' = FALSE
  /\ loads' = removeAt(loads, i)
  /\ sortRun' = 0
  /\ UNCHANGED <<store, initialReports, toggleCalls, currentFolder, filterCtl, pageCtl, groupCtl,
                 tagInput, sortState, csvVars, fnVars>>

\* the await of fetchReports resolves: setReports(data), setIsLoading(false)
LoadDone(i) ==
  /\ loads[i].pc = "response"
  /\ reports' = loads[i].data
  /\ isLoading' = FALSE
  /\ loads' = removeAt(loads, i)
  /\ sortRun' = 0
  /\ UNCHANGED <<store, initialReports, toggleCalls, currentFolder, filterCtl, pageCtl, groupCtl,
                 tagInput, sortState, csvVars, fnVars>>

\* the call itself is rejected: the catch of fetchReports restores initialReports
LoadRejected(i) ==
  /\ loads[i].pc = "request"
  /\ reports' = initialReports
  /\ isLoading' = FALSE
  /\ loads' = removeAt(loads, i)
  /\ sortRun' = 0
  /\ UNCHANGED <<store, initialReports, toggleCalls, currentFolder, filterCtl, pageCtl, groupCtl,
                 tagInput, sortState, csvVars, fnVars>>

----------------------------------------------------------------------------
(* Status toggle: handleToggleActive and toggleReportStatus *)

\* the Switch of a rendered row: toggleReportStatus(id, !currentStatus) is sent
ToggleClickUpTo(r, limit) ==
  /\ rendered(r)
  /\ Len(toggleCalls) < limit
  /\ toggleCalls' = Append(toggleCalls,
       [id |-> r.id, status |-> ~r.isActive, pc |-> "read", snap |-> <<>>,
        result |-> FALSE])
  /\ UNCHANGED <<store, initialReports, loads, gridVars, csvVars, fnVars>>

ToggleClick(r) == ToggleClickUpTo(r, MaxCalls)

\* toggleReportStatus reads structure.json
ToggleServerRead(i) ==
  /\ toggleCalls[i].pc = "read"
  /\ toggleCalls' = [toggleCalls EXCEPT ![i] = [@ EXCEPT !.pc = "write", !.snap = store]]
  /\ UNCHANGED <<store, initialReports, loads, gridVars, csvVars, fnVars>>

\* a write that applies the change to the structure as it is at the write
ToggleServerWriteMerged(i) ==
  /\ toggleCalls[i].pc = "write"
  /\ store' = withStatus(store, toggleCalls[i].id, toggleCalls[i].status)
  /\ toggleCalls' = [toggleCalls EXCEPT ![i] = [@ EXCEPT !.pc = "response",
                       !.snap = <<>>, !.result = TRUE]]
  /\ UNCHANGED <<loads, initialReports, gridVars, csvVars, fnVars>>

\* toggleReportStatus writes the updated structure back and returns true
ToggleServerWrite(i) ==
  /\ toggleCalls[i].pc = "write"
  /\ store' = withStatus(toggleCalls[i].snap, toggleCalls[i].id, toggleCalls[i].status)
  /\ toggleCalls' = [toggleCalls EXCEPT ![i] = [@ EXCEPT !.pc = "response",
                       !.snap = <<>>, !.result = TRUE]]
  /\ UNCHANGED <<loads, initialReports, gridVars, csvVars, fnVars>>

\* readFile or writeFile throws: the catch of toggleReportStatus returns false
ToggleServerFails(i) ==
  /\ toggleCalls[i].pc \in {"read", "write"}
  /\ toggleCalls' = [toggleCalls EXCEPT ![i] = [@ EXCEPT !.pc = "response",
                       !.snap = <<>>, !.result = FALSE]]
  /\ UNCHANGED <<store, initialReports, loads, gridVars, csvVars, fnVars>>

\* the local update of handleToggleActive: the report's isActive is flipped
flipActive(rs, reportId) ==
  [k \in 1..Len(rs) |->
     IF rs[k].id = reportId THEN [rs[k] EXCEPT !.isActive = ~rs[k].isActive] ELSE rs[k]]

\* the await of handleToggleActive resolves (with true or with false)
ToggleDone(i) ==
  /\ toggleCalls[i].pc = "response"
  /\ reports' = flipActive(reports, toggleCalls[i].id)
  /\ toggleCalls' = removeAt(toggleCalls, i)
  /\ sortRun' = 0
  /\ UNCHANGED <<store, initialReports, loads, currentFolder, isLoading, filterCtl, pageCtl, groupCtl,
                 tagInput, sortState, csvVars, fnVars>>

\* the call itself is rejected: the catch of handleToggleActive only logs
ToggleRejected(i) ==
  /\ toggleCalls[i].pc = "read"
  /\ toggleCalls' = removeAt(toggleCalls, i)
  /\ UNCHANGED <<store, initialReports, loads, gridVars, csvVars, fnVars>>

----------------------------------------------------------------------------
(* Filters, sort and grouping controls *)

\* the search box: setSearchTerm(e.target.value)
SetSearchTerm(text) ==
  /\ ~isLoading
  /\ searchTerm' = text
  /\ sortRun' = 0
  /\ UNCHANGED <<storeVars, currentFolder, reports, isLoading, activeTagFilter,
                 activeStatusFilter, pageCtl, groupCtl, tagInput, sortState, csvVars, fnVars>>

\* the tag select: setActiveTagFilter(e.target.value || null)
SetActiveTagFilter(value) ==
  /\ ~isLoading
  /\ value \in {<<>>} \cup getAllTags(reports)
  /\ activeTagFilter' = IF value = <<>> THEN None ELSE Some(value)
  /\ sortRun' = 0
  /\ UNCHANGED <<storeVars, currentFolder, reports, isLoading, searchTerm,
                 activeStatusFilter, pageCtl, groupCtl, tagInput, sortState, csvVars, fnVars>>

\* the status select: '' is null, otherwise value === 'true'
SetActiveStatusFilter(value) ==
  /\ ~isLoading
  /\ value \in {"", "true", "false"}
  /\ activeStatusFilter' = IF value = "" THEN None ELSE Some(value = "true")
  /\ sortRun' = 0
  /\ UNCHANGED <<storeVars, currentFolder, reports, isLoading, searchTerm,
                 activeTagFilter, pageCtl, groupCtl, tagInput, sortState, csvVars, fnVars>>

SortFields == {"name", "date", "status"}

\* a two-state toggle: descending goes back to ascending
handleSortTwoState(prev, field) ==
  [field |-> field,
   direction |-> IF prev.field = field /\ prev.direction = "asc" THEN "desc" ELSE "asc"]

\* a toggle that stays descending on the third click
handleSortNoNeutral(prev, field) ==
  [field |-> field,
   direction |-> IF prev.field = field /\ prev.direction \in {"asc", "desc"} THEN "desc"
                 ELSE "asc"]

\* the updater handleSort hands to setSortState
handleSort(prev, field) ==
  [field |-> field,
   direction |-> IF prev.field = field
                 THEN IF prev.direction = "asc" THEN "desc"
                      ELSE IF prev.direction = "desc" THEN "null" ELSE "asc"
                 ELSE "asc"]

\* a click on a sortable header of the flat table
HandleSort(field) ==
  /\ ~isLoading /\ ~groupByDate
  /\ field \in SortFields
  /\ sortState' = handleSort(sortState, field)
  /\ sortRun' = IF sortState.direction = "null" THEN 1
                ELSE IF sortState.field = field /\ sortRun > 0 THEN sortRun + 1 ELSE 0
  /\ UNCHANGED <<storeVars, currentFolder, reports, isLoading, filterCtl, pageCtl,
                 groupCtl, tagInput, csvVars, fnVars>>

\* Enable Grouping / Disable Grouping
SetGroupByDate ==
  /\ ~isLoading
  /\ groupByDate' = ~groupByDate
  /\ UNCHANGED <<storeVars, currentFolder, reports, isLoading, filterCtl, pageCtl,
                 expandedGroups, tagInput, sortCtl, csvVars, fnVars>>

\* a click on a group header
toggleGroup(date) ==
  /\ ~isLoading /\ groupByDate
  /\ \E g \in 1..Len(groupedReports) : groupedReports[g][1] = date
  /\ expandedGroups' = IF date \in expandedGroups THEN expandedGroups \ {date}
                       ELSE expandedGroups \cup {date}
  /\ UNCHANGED <<storeVars, currentFolder, reports, isLoading, filterCtl, pageCtl,
                 groupByDate, tagInput, sortCtl, csvVars, fnVars>>

\* an Expand All that takes the dates of all reports, filtered out or not
expandAllUnfiltered ==
  /\ ~isLoading /\ groupByDate
  /\ expandedGroups' = {dateKey(reports[i].date) : i \in 1..Len(reports)}
  /\ UNCHANGED <<storeVars, currentFolder, reports, isLoading, filterCtl, pageCtl,
                 groupByDate, tagInput, sortCtl, csvVars, fnVars>>

\* Expand All: the dates of groupedReports
expandAll ==
  /\ ~isLoading /\ groupByDate
  /\ expandedGroups' = {groupedReports[g][1] : g \in 1..Len(groupedReports)}
  /\ UNCHANGED <<storeVars, currentFolder, reports, isLoading, filterCtl, pageCtl,
                 groupByDate, tagInput, sortCtl, csvVars, fnVars>>

collapseAll ==
  /\ ~isLoading /\ groupByDate
  /\ expandedGroups' = {}
  /\ UNCHANGED <<storeVars, currentFolder, reports, isLoading, filterCtl, pageCtl,
                 groupByDate, tagInput, sortCtl, csvVars, fnVars>>

----------------------------------------------------------------------------
(* Grid pagination *)

\* Math.ceil(reports.length / gridPageSize): the last page of the grid's controls
gridLastPage == ceilDiv(Len(reports), pageSizeNumber(gridPageSize))

\* the First/Previous/Next/Last row is rendered
gridControlsShown ==
  /\ ~isLoading /\ ~groupByDate
  /\ gridPageSize # "All"
  /\ Len(reports) > pageSizeNumber(gridPageSize)

\* Rows per page: the size is set and the page goes back to 1
SetGridPageSize(size) ==
  /\ ~isLoading /\ ~groupByDate
  /\ \E k \in 1..Len(PAGE_SIZE_OPTIONS) : PAGE_SIZE_OPTIONS[k] = size
  /\ gridPageSize' = size
  /\ gridCurrentPage' = 1
  /\ UNCHANGED <<storeVars, currentFolder, reports, isLoading, filterCtl, groupCtl,
                 tagInput, sortCtl, csvVars, fnVars>>

GridSetPage(page) ==
  /\ gridCurrentPage' = page
  /\ UNCHANGED <<storeVars, currentFolder, reports, isLoading, filterCtl, gridPageSize,
                 groupCtl, tagInput, sortCtl, csvVars, fnVars>>

GridFirst ==
  /\ gridControlsShown /\ gridCurrentPage # 1
  /\ GridSetPage(1)

GridPrevious ==
  /\ gridControlsShown /\ gridCurrentPage # 1
  /\ GridSetPage(IF gridCurrentPage - 1 > 1 THEN gridCurrentPage - 1 ELSE 1)

GridNext ==
  /\ gridControlsShown /\ gridCurrentPage # gridLastPage
  /\ gridCurrentPage < MaxPage
  /\ GridSetPage(gridCurrentPage + 1)

GridLast ==
  /\ gridControlsShown /\ gridCurrentPage # gridLastPage
  /\ GridSetPage(gridLastPage)

----------------------------------------------------------------------------
(* Tags *)

\* the + of a rendered row: setTagReportId(report.id)
OpenTagInput(r) ==
  /\ rendered(r)
  /\ tagReportId # Some(r.id)
  /\ tagReportId' = Some(r.id)
  /\ UNCHANGED <<storeVars, currentFolder, reports, isLoading, filterCtl, pageCtl,
                 groupCtl, newTag, sortCtl, csvVars, fnVars>>

\* typing into the new-tag input: setNewTag(e.target.value)
SetNewTag(text) ==
  /\ ~isLoading /\ tagReportId # None
  /\ newTag' = text
  /\ UNCHANGED <<storeVars, currentFolder, reports, isLoading, filterCtl, pageCtl,
                 groupCtl, tagReportId, sortCtl, csvVars, fnVars>>

\* onBlur of the new-tag input
BlurTagInput ==
  /\ ~isLoading /\ tagReportId # None
  /\ tagReportId' = None
  /\ UNCHANGED <<storeVars, currentFolder, reports, isLoading, filterCtl, pageCtl,
                 groupCtl, newTag, sortCtl, csvVars, fnVars>>

\* an updater that appends the tag whether the report has it or not
addTagAlways(rs, reportId, tagToAdd) ==
  [k \in 1..Len(rs) |->
     IF rs[k].id = reportId THEN [rs[k] EXCEPT !.tags = Append(@, tagToAdd)] ELSE rs[k]]

\* the updater of handleAddTag: the tag is appended unless the report has it
addTag(rs, reportId, tagToAdd) ==
  [k \in 1..Len(rs) |->
     IF rs[k].id = reportId /\ ~arrayIncludes(rs[k].tags, tagToAdd)
     THEN [rs[k] EXCEPT !.tags = Append(@, tagToAdd)] ELSE rs[k]]

\* Enter in the new-tag input of report r, with a tag that is not blank
HandleAddTag(r) ==
  /\ rendered(r) /\ tagReportId = Some(r.id)
  /\ trim(newTag) # <<>>
  /\ reports' = addTag(reports, r.id, trim(newTag))
  /\ newTag' = <<>>
  /\ tagReportId' = None
  /\ sortRun' = 0
  /\ UNCHANGED <<storeVars, currentFolder, isLoading, filterCtl, pageCtl, groupCtl,
                 sortState, csvVars, fnVars>>

\* an updater that takes the tag off every report
removeTagEverywhere(rs, reportId, tagToRemove) ==
  [k \in 1..Len(rs) |->
     [rs[k] EXCEPT !.tags = SelectSeq(@, LAMBDA tag : tag # tagToRemove)]]

\* the updater of handleRemoveTag
removeTag(rs, reportId, tagToRemove) ==
  [k \in 1..Len(rs) |->
     IF rs[k].id = reportId
     THEN [rs[k] EXCEPT !.tags = SelectSeq(@, LAMBDA tag : tag # tagToRemove)] ELSE rs[k]]

\* the x of a tag of a rendered row
HandleRemoveTag(r, tagToRemove) ==
  /\ rendered(r) /\ arrayIncludes(r.tags, tagToRemove)
  /\ reports' = removeTag(reports, r.id, tagToRemove)
  /\ activeTagFilter' = IF activeTagFilter = Some(tagToRemove) THEN None ELSE activeTagFilter
  /\ sortRun' = 0
  /\ UNCHANGED <<storeVars, currentFolder, isLoading, searchTerm, activeStatusFilter,
                 pageCtl, groupCtl, tagInput, sortState, csvVars, fnVars>>

----------------------------------------------------------------------------
(* The dashboard: the grid with its store *)

\* the modal is closed and no CSV is being fetched
CsvIdle ==
  /\ selectedReport = None /\ csvData = None
  /\ csvSortField = None /\ csvSortDirection = "null"
  /\ csvFilter = <<>> /\ pageSize = "10" /\ currentPage = 1
  /\ csvCalls = <<>>

FnIdle == fnOp = "none" /\ fnOut = <<>>

\* the useState defaults of the grid's controls
GridDefaults ==
  /\ groupByDate = TRUE /\ expandedGroups = {}
  /\ searchTerm = <<>> /\ activeTagFilter = None /\ activeStatusFilter = None
  /\ sortState = [field |-> "null", direction |-> "null"]
  /\ gridPageSize = "10" /\ gridCurrentPage = 1
  /\ newTag = <<>> /\ tagReportId = None
  /\ sortRun = 0

\* after mount over a store: initialReports in memory, the first fetchReports in flight
Mounted(structure) ==
  /\ store = structure
  /\ initialReports = reportsOfFolder(structure, defaultFolder(structure))
  /\ loads = <<[folder |-> defaultFolder(structure), pc |-> "request", data |-> <<>>]>>
  /\ toggleCalls = <<>>
  /\ currentFolder = defaultFolder(structure)
  /\ reports = initialReports
  /\ isLoading = TRUE
  /\ GridDefaults
  /\ CsvIdle
  /\ FnIdle

Init == Mounted(InitialStructure)

InitMutate == Mounted(SmallStructure)

Range(seq) == {seq[i] : i \in 1..Len(seq)}

LoadActions ==
  \/ \E folderId \in FolderIds : TabChange(folderId)
  \/ \E i \in 1..Len(loads) : LoadServer(i)
  \/ \E i \in 1..Len(loads) : LoadServerFails(i)
  \/ \E i \in 1..Len(loads) : LoadDone(i)
  \/ \E i \in 1..Len(loads) : LoadRejected(i)

ToggleActions ==
  \/ \E r \in Range(renderedReports) : ToggleClick(r)
  \/ \E i \in 1..Len(toggleCalls) : ToggleServerRead(i)
  \/ \E i \in 1..Len(toggleCalls) : ToggleServerWrite(i)
  \/ \E i \in 1..Len(toggleCalls) : ToggleServerFails(i)
  \/ \E i \in 1..Len(toggleCalls) : ToggleDone(i)
  \/ \E i \in 1..Len(toggleCalls) : ToggleRejected(i)

FilterActions ==
  \/ \E text \in SearchInputs : SetSearchTerm(text)
  \/ \E value \in {<<>>} \cup getAllTags(reports) : SetActiveTagFilter(value)
  \/ \E value \in {"", "true", "false"} : SetActiveStatusFilter(value)

GroupActions ==
  \/ \E date \in {groupedReports[g][1] : g \in 1..Len(groupedReports)} : toggleGroup(date)
  \/ expandAll
  \/ collapseAll

FlatActions ==
  \/ \E field \in SortFields : HandleSort(field)
  \/ \E size \in Range(PAGE_SIZE_OPTIONS) : SetGridPageSize(size)
  \/ GridFirst \/ GridPrevious \/ GridNext \/ GridLast

TagActions ==
  \/ \E r \in Range(renderedReports) : OpenTagInput(r)
  \/ \E r \in Range(renderedReports) : HandleAddTag(r)
  \/ \E r \in Range(renderedReports) : \E tag \in Range(r.tags) : HandleRemoveTag(r, tag)
  \/ \E text \in TagInputs : SetNewTag(text)
  \/ BlurTagInput

\* the view-model controls over the reports of the folders
Next == LoadActions \/ FilterActions \/ SetGroupByDate \/ FlatActions

Spec == Init /\ [][Next]_vars

\* the status toggles with their persistence, over the small store
NextToggle == LoadActions \/ ToggleActions \/ SetGroupByDate

SpecToggle == InitMutate /\ [][NextToggle]_vars

\* the tag edits, over the small store
NextTags == LoadActions \/ TagActions \/ SetGroupByDate

SpecTags == InitMutate /\ [][NextTags]_vars

\* the status toggles, up to MaxRaceCalls of them in flight, after the first load
NextWriters ==
  \/ \E i \in 1..Len(loads) : LoadServer(i)
  \/ \E i \in 1..Len(loads) : LoadDone(i)
  \/ SetGroupByDate
  \/ \E r \in Range(renderedReports) : ToggleClickUpTo(r, MaxRaceCalls)
  \/ \E i \in 1..Len(toggleCalls) : ToggleServerRead(i)
  \/ \E i \in 1..Len(toggleCalls) : ToggleServerWrite(i)
  \/ \E i \in 1..Len(toggleCalls) : ToggleServerFails(i)
  \/ \E i \in 1..Len(toggleCalls) : ToggleDone(i)
  \/ \E i \in 1..Len(toggleCalls) : ToggleRejected(i)

SpecWriters == InitMutate /\ [][NextWriters]_vars

\* the status toggles, up to MaxRaceCalls of them in flight, when every read
\* and write of structure.json succeeds
NextPersisted ==
  \/ \E i \in 1..Len(loads) : LoadServer(i)
  \/ \E i \in 1..Len(loads) : LoadDone(i)
  \/ SetGroupByDate
  \/ \E r \in Range(renderedReports) : ToggleClickUpTo(r, MaxRaceCalls)
  \/ \E i \in 1..Len(toggleCalls) : ToggleServerRead(i)
  \/ \E i \in 1..Len(toggleCalls) : ToggleServerWrite(i)
  \/ \E i \in 1..Len(toggleCalls) : ToggleDone(i)

SpecPersisted == InitMutate /\ [][NextPersisted]_vars

\* the grouped view: the group headers, Expand All and Collapse All, with the
\* filters and the folder loads
NextGrouped == LoadActions \/ FilterActions \/ SetGroupByDate \/ GroupActions

SpecGrouped == Init /\ [][NextGrouped]_vars

\* getReportFolders on a read of structure.json (None: the read or the parse
\* throws): the folders, or the error that escapes, there being no catch
getReportFolders(read) ==
  IF read = None THEN [threw |-> TRUE, value |-> <<>>]
  ELSE [threw |-> FALSE, value |-> The(read)]

\* getReportsByFolder on a read of structure.json and the CSVs (None: a read
\* throws and the catch returns [])
getReportsByFolder(read, folderId) ==
  IF read = None THEN <<>> ELSE reportsOfFolder(The(read), folderId)

\* the folder parameter of the URL the page is requested with; "" is none
UrlFolders == {"", "f1", "f2", "f9"}

\* the page is requested: nothing is mounted, the state holds the useState
\* defaults
InitPage ==
  /\ store \in {InitialStructure, SmallStructure}
  /\ initialReports = <<>>
  /\ loads = <<>> /\ toggleCalls = <<>>
  /\ currentFolder \in UrlFolders
  /\ reports = <<>>
  /\ isLoading = TRUE
  /\ GridDefaults
  /\ CsvIdle
  /\ FnIdle

\* Page(): getReportFolders, then getReportsByFolder(defaultFolder), then
\* ReportGrid mounts and its effects run; when getReportFolders throws the
\* page fails and nothing mounts. fnOut keeps the outcome of getReportFolders.
ServePage(foldersRead, reportsRead) ==
  LET folders == getReportFolders(IF foldersRead THEN Some(store) ELSE None)
      default == defaultFolder(folders.value)
      folder  == IF currentFolder = "" THEN default ELSE currentFolder
  IN  /\ fnOp = "none"
      /\ fnOp' = "getReportFolders"
      /\ fnOut' = [failed |-> ~foldersRead, threw |-> folders.threw, value |-> folders.value]
      /\ IF folders.threw
         THEN UNCHANGED <<storeVars, gridVars, csvVars>>
         ELSE /\ initialReports' =
                   getReportsByFolder(IF reportsRead THEN Some(store) ELSE None, default)
              /\ reports' = initialReports'
              /\ currentFolder' = folder
              /\ isLoading' = TRUE
              /\ loads' = <<[folder |-> folder, pc |-> "request", data |-> <<>>]>>
              /\ UNCHANGED <<store, toggleCalls, filterCtl, pageCtl, groupCtl, tagInput,
                             sortCtl, csvVars>>

\* the page was served and ReportGrid is mounted
mounted == fnOp = "getReportFolders" /\ ~fnOut.threw

\* the page load and the folder loads that follow it
NextPage ==
  \/ \E foldersRead \in BOOLEAN : \E reportsRead \in BOOLEAN :
       ServePage(foldersRead, reportsRead)
  \/ mounted /\ \E folderId \in FolderIds : TabChange(folderId)
  \/ mounted /\ \E i \in 1..Len(loads) : LoadServer(i)
  \/ mounted /\ \E i \in 1..Len(loads) : LoadServerFails(i)
  \/ mounted /\ \E i \in 1..Len(loads) : LoadDone(i)
  \/ mounted /\ \E i \in 1..Len(loads) : LoadRejected(i)
  \/ mounted /\ SetGroupByDate

SpecPage == InitPage /\ [][NextPage]_vars

\* the tag typed into the new-tag input
MutationInputs == {<<" ", "y", " ">>}

\* the three mutations of the reports together, after the first load, with
\* calls that succeed
NextMutations ==
  \/ \E i \in 1..Len(loads) : LoadServer(i)
  \/ \E i \in 1..Len(loads) : LoadDone(i)
  \/ SetGroupByDate
  \/ \E r \in Range(renderedReports) : ToggleClick(r)
  \/ \E i \in 1..Len(toggleCalls) : ToggleServerRead(i)
  \/ \E i \in 1..Len(toggleCalls) : ToggleServerWrite(i)
  \/ \E i \in 1..Len(toggleCalls) : ToggleDone(i)
  \/ \E r \in Range(renderedReports) : OpenTagInput(r)
  \/ \E r \in Range(renderedReports) : HandleAddTag(r)
  \/ \E r \in Range(renderedReports) : \E tag \in Range(r.tags) : HandleRemoveTag(r, tag)
  \/ \E text \in MutationInputs : SetNewTag(text)

SpecMutations == InitMutate /\ [][NextMutations]_vars

\* the folder loads alone, up to MaxRaceLoads of them in flight
NextLoads ==
  \/ \E folderId \in FolderIds : TabChangeUpTo(folderId, MaxRaceLoads)
  \/ \E i \in 1..Len(loads) : LoadServer(i)
  \/ \E i \in 1..Len(loads) : LoadServerFails(i)
  \/ \E i \in 1..Len(loads) : LoadDone(i)
  \/ \E i \in 1..Len(loads) : LoadRejected(i)

SpecLoads == InitMutate /\ [][NextLoads]_vars

----------------------------------------------------------------------------
(* The CSV modal *)

RECURSIVE split(_, _)
\* String.prototype.split on a one-character separator
split(s, sep) ==
  LET at == {i \in 1..Len(s) : s[i] = sep}
  IN  IF at = {} THEN <<s>>
      ELSE <<SubSeq(s, 1, MinOf(at) - 1)>> \o split(SubSeq(s, MinOf(at) + 1, Len(s)), sep)

\* a parse that keeps the rows of any length
parseCSVAnyLength(csv) ==
  LET lines == split(csv, "\n")
      cells(line) == [k \in 1..Len(split(line, ",")) |-> trim(split(line, ",")[k])]
  IN  [headers |-> cells(lines[1]),
       rows |-> SelectSeq([n \in 1..(Len(lines) - 1) |-> cells(lines[n + 1])],
                          LAMBDA row : \E k \in 1..Len(row) : row[k] # <<>>)]

parseCSV(csv) ==
  LET lines == split(csv, "\n")
      cells(line) == [k \in 1..Len(split(line, ",")) |-> trim(split(line, ",")[k])]
      headers == cells(lines[1])
  IN  [headers |-> headers,
       rows |-> SelectSeq([n \in 1..(Len(lines) - 1) |-> cells(lines[n + 1])],
                          LAMBDA row : /\ Len(row) = Len(headers)
                                       /\ \E k \in 1..Len(row) : row[k] # <<>>)]

Digits == <<"0", "1", "2", "3", "4", "5", "6", "7", "8", "9">>
isDigit(c) == \E d \in 1..Len(Digits) : Digits[d] = c
digitValue(c) == (CHOOSE d \in 1..Len(Digits) : Digits[d] = c) - 1

RECURSIVE decimal(_)
decimal(s) ==
  IF s = <<>> THEN 0
  ELSE 10 * decimal(SubSeq(s, 1, Len(s) - 1)) + digitValue(s[Len(s)])

\* Number(cell) of an unsigned decimal: None is NaN, the empty string is 0
cellNumber(cell) ==
  IF \A k \in 1..Len(trim(cell)) : isDigit(trim(cell)[k])
  THEN Some(decimal(trim(cell))) ELSE None

\* the comparator of getProcessedCsvData: numbers if both cells parse
compareRows(a, b, field, direction) ==
  LET valueA == a[field + 1]
      valueB == b[field + 1]
      numA == cellNumber(valueA)
      numB == cellNumber(valueB)
  IN  IF numA # None /\ numB # None
      THEN IF direction = "asc" THEN The(numA) - The(numB) ELSE The(numB) - The(numA)
      ELSE IF direction = "asc" THEN localeCompare(valueA, valueB)
           ELSE localeCompare(valueB, valueA)

RECURSIVE rowSort(_, _, _)
\* processedRows.sort(...): a stable insertion by compareRows
rowSort(rows, field, direction) ==
  IF rows = <<>> THEN <<>>
  ELSE LET sorted == rowSort(SubSeq(rows, 1, Len(rows) - 1), field, direction)
           x  == rows[Len(rows)]
           le == {j \in 1..Len(sorted) : compareRows(sorted[j], x, field, direction) <= 0}
           k  == IF le = {} THEN 0 ELSE CHOOSE j \in le : \A i \in le : i <= j
       IN  SubSeq(sorted, 1, k) \o <<x>> \o SubSeq(sorted, k + 1, Len(sorted))

\* a row filter that compares the cells as they are written
getProcessedCsvDataCaseSensitive(data, filter, field, direction) ==
  LET filtered ==
        IF filter # <<>>
        THEN SelectSeq(data.rows, LAMBDA row : \E k \in 1..Len(row) : includes(row[k], filter))
        ELSE data.rows
  IN  [headers |-> data.headers,
       rows |-> IF field # None /\ direction # "null"
                THEN rowSort(filtered, The(field), direction) ELSE filtered]

getProcessedCsvData(data, filter, field, direction) ==
  LET filtered ==
        IF filter # <<>>
        THEN SelectSeq(data.rows, LAMBDA row :
               \E k \in 1..Len(row) : includes(toLowerCase(row[k]), toLowerCase(filter)))
        ELSE data.rows
  IN  [headers |-> data.headers,
       rows |-> IF field # None /\ direction # "null"
                THEN rowSort(filtered, The(field), direction) ELSE filtered]

\* lines joined by newlines: the text of a file
text(lines) ==
  LET RECURSIVE join(_)
      join(n) == IF n = 0 THEN <<>>
                 ELSE IF n = 1 THEN lines[1] ELSE join(n - 1) \o <<"\n">> \o lines[n]
  IN  join(Len(lines))

\* reports/<id>.csv
CsvFiles ==
  [id \in {"r1", "r2", "r3", "r4", "r5", "r6", "r7"} |->
     IF id = "r3"
     THEN text(<< <<"k", ",", "v">>, <<"a", ",", "1">>, <<"b">>, <<",">>, <<>> >>)
     ELSE text(<< <<"k", ",", " ", "v">>,
                  <<"a", "b", ",", "1">>,
                  <<"x", "y", ",", "2">>,
                  <<"c", "a", "b", ",", "3">>,
                  <<"b", ",", "1", "0">>,
                  <<"a", ",", "x">>,
                  <<"A", "b", ",", " ", "2">> >>)]

CsvFilterInputs == {<<>>, <<"a", "b">>, <<"X">>}

\* the modal is rendered: selectedReport && csvData
modalOpen == selectedReport # None /\ csvData # None

csvCtl == <<csvSortField, csvSortDirection, csvFilter, pageSize, currentPage>>

\* View CSV on a rendered row; the button is disabled on an inactive report
\* and the modal, once open, covers the grid
ViewClickUpTo(r, limit) ==
  /\ rendered(r) /\ ~modalOpen
  /\ r.isActive
  /\ Len(csvCalls) < limit
  /\ csvCalls' = Append(csvCalls, [id |-> r.id, pc |-> "request", data |-> <<>>])
  /\ UNCHANGED <<storeVars, gridVars, selectedReport, csvData, csvCtl, fnVars>>

ViewClick(r) == ViewClickUpTo(r, MaxCsvCalls)

\* a handler that fetches the CSV of any report
handleViewReportUnchecked(calls, report) ==
  Append(calls, [id |-> report.id, pc |-> "request", data |-> <<>>])

\* handleViewReport up to its await: the calls in flight after it; an
\* inactive report gets the alert and no call
handleViewReport(calls, report) ==
  IF ~report.isActive THEN calls
  ELSE Append(calls, [id |-> report.id, pc |-> "request", data |-> <<>>])

\* handleViewReport(report) invoked on a rendered report, active or not; the
\* invocation is recorded in fnOp and fnOut
HandleViewReport(r) ==
  /\ rendered(r) /\ ~modalOpen
  /\ Len(csvCalls) < MaxCsvCalls
  /\ csvCalls' = handleViewReport(csvCalls, r)
  /\ fnOp' = "handleViewReport"
  /\ fnOut' = r
  /\ UNCHANGED <<storeVars, gridVars, selectedReport, csvData, csvCtl>>

\* getReportCSV reads the file on the server
CsvServer(i) ==
  /\ csvCalls[i].pc = "request"
  /\ csvCalls' = [csvCalls EXCEPT ![i] = [@ EXCEPT !.pc = "response",
                    !.data = CsvFiles[csvCalls[i].id]]]
  /\ UNCHANGED <<storeVars, gridVars, selectedReport, csvData, csvCtl, fnVars>>

\* the read throws and getReportCSV rethrows: the catch of handleViewReport logs
CsvRejected(i) ==
  /\ csvCalls[i].pc = "request"
  /\ csvCalls' = removeAt(csvCalls, i)
  /\ UNCHANGED <<storeVars, gridVars, selectedReport, csvData, csvCtl, fnVars>>

\* the await of handleViewReport resolves: the table is parsed, the modal opens
CsvDone(i) ==
  /\ csvCalls[i].pc = "response"
  /\ csvData' = Some(parseCSV(csvCalls[i].data))
  /\ selectedReport' = Some(csvCalls[i].id)
  /\ csvCalls' = removeAt(csvCalls, i)
  /\ UNCHANGED <<storeVars, gridVars, csvCtl, fnVars>>

\* Close
CloseModal ==
  /\ modalOpen
  /\ selectedReport' = None /\ csvData' = None
  /\ csvSortField' = None /\ csvSortDirection' = "null"
  /\ csvFilter' = <<>>
  /\ currentPage' = 1
  /\ UNCHANGED <<storeVars, gridVars, pageSize, csvCalls, fnVars>>

\* Filter data...: setCsvFilter(e.target.value)
SetCsvFilter(filter) ==
  /\ modalOpen
  /\ csvFilter' = filter
  /\ UNCHANGED <<storeVars, gridVars, selectedReport, csvData, csvSortField,
                 csvSortDirection, pageSize, currentPage, csvCalls, fnVars>>

\* a header click that forgets to clear the field on the third click
csvHeaderClickKeepsField(field, direction, index) ==
  IF field = Some(index)
  THEN [field |-> field,
        direction |-> IF direction = "asc" THEN "desc"
                      ELSE IF direction = "desc" THEN "null" ELSE "asc"]
  ELSE [field |-> Some(index), direction |-> "asc"]

\* the onClick of a column header: the new sort field and direction
csvHeaderClick(field, direction, index) ==
  IF field = Some(index)
  THEN [field |-> IF direction = "desc" THEN None ELSE field,
        direction |-> IF direction = "asc" THEN "desc"
                      ELSE IF direction = "desc" THEN "null" ELSE "asc"]
  ELSE [field |-> Some(index), direction |-> "asc"]

\* a click on the header of column index (0-based)
CsvHeaderClick(index) ==
  /\ modalOpen
  /\ index \in 0..(Len(The(csvData).headers) - 1)
  /\ csvSortField' = csvHeaderClick(csvSortField, csvSortDirection, index).field
  /\ csvSortDirection' = csvHeaderClick(csvSortField, csvSortDirection, index).direction
  /\ UNCHANGED <<storeVars, gridVars, selectedReport, csvData, csvFilter, pageSize,
                 currentPage, csvCalls, fnVars>>

\* a page-size select that leaves the page where it is
SetPageSizeKeepsPage(size) ==
  /\ modalOpen
  /\ \E k \in 1..Len(PAGE_SIZE_OPTIONS) : PAGE_SIZE_OPTIONS[k] = size
  /\ pageSize' = size
  /\ UNCHANGED <<storeVars, gridVars, selectedReport, csvData, csvSortField,
                 csvSortDirection, csvFilter, currentPage, csvCalls, fnVars>>

\* Rows per page of the modal
SetPageSize(size) ==
  /\ modalOpen
  /\ \E k \in 1..Len(PAGE_SIZE_OPTIONS) : PAGE_SIZE_OPTIONS[k] = size
  /\ pageSize' = size
  /\ currentPage' = 1
  /\ UNCHANGED <<storeVars, gridVars, selectedReport, csvData, csvSortField,
                 csvSortDirection, csvFilter, csvCalls, fnVars>>

\* Math.ceil(csvData.rows.length / pageSize): the last page of the modal's controls
csvLastPage == ceilDiv(Len(The(csvData).rows), pageSizeNumber(pageSize))

csvControlsShown ==
  /\ modalOpen
  /\ pageSize # "All"
  /\ Len(The(csvData).rows) > pageSizeNumber(pageSize)

CsvSetPage(page) ==
  /\ currentPage' = page
  /\ UNCHANGED <<storeVars, gridVars, selectedReport, csvData, csvSortField,
                 csvSortDirection, csvFilter, pageSize, csvCalls, fnVars>>

CsvFirst ==
  /\ csvControlsShown /\ currentPage # 1
  /\ CsvSetPage(1)

CsvPrevious ==
  /\ csvControlsShown /\ currentPage # 1
  /\ CsvSetPage(IF currentPage - 1 > 1 THEN currentPage - 1 ELSE 1)

\* a Next that is never disabled
CsvNextAlways ==
  /\ csvControlsShown
  /\ currentPage < MaxPage
  /\ CsvSetPage(currentPage + 1)

CsvNext ==
  /\ csvControlsShown /\ currentPage # csvLastPage
  /\ currentPage < MaxPage
  /\ CsvSetPage(currentPage + 1)

CsvLast ==
  /\ csvControlsShown /\ currentPage # csvLastPage
  /\ CsvSetPage(csvLastPage)

\* the rows of the modal's table
renderedRows ==
  paginate(getProcessedCsvData(The(csvData), csvFilter, csvSortField, csvSortDirection).rows,
           pageSize, currentPage)

CsvActions ==
  \/ \E r \in Range(renderedReports) : ViewClick(r)
  \/ \E i \in 1..Len(csvCalls) : CsvServer(i)
  \/ \E i \in 1..Len(csvCalls) : CsvRejected(i)
  \/ \E i \in 1..Len(csvCalls) : CsvDone(i)
  \/ CloseModal
  \/ \E filter \in CsvFilterInputs : SetCsvFilter(filter)
  \/ \E index \in 0..1 : CsvHeaderClick(index)
  \/ \E size \in Range(PAGE_SIZE_OPTIONS) : SetPageSize(size)
  \/ CsvFirst \/ CsvPrevious \/ CsvNext \/ CsvLast

\* the CSV modal over the reports of the small store
NextCsv ==
  \/ \E i \in 1..Len(loads) : LoadServer(i)
  \/ \E i \in 1..Len(loads) : LoadDone(i)
  \/ SetGroupByDate
  \/ CsvActions

SpecCsv == InitMutate /\ [][NextCsv]_vars

\* the modal with up to MaxRaceCalls fetches of a CSV in flight: View clicked
\* again before the modal is open
NextViews ==
  \/ \E i \in 1..Len(loads) : LoadServer(i)
  \/ \E i \in 1..Len(loads) : LoadDone(i)
  \/ SetGroupByDate
  \/ \E r \in Range(renderedReports) : ViewClickUpTo(r, MaxRaceCalls)
  \/ \E i \in 1..Len(csvCalls) : CsvServer(i)
  \/ \E i \in 1..Len(csvCalls) : CsvDone(i)
  \/ CloseModal
  \/ \E filter \in CsvFilterInputs : SetCsvFilter(filter)
  \/ \E index \in 0..1 : CsvHeaderClick(index)
  \/ \E size \in Range(PAGE_SIZE_OPTIONS) : SetPageSize(size)
  \/ CsvFirst \/ CsvPrevious \/ CsvNext \/ CsvLast

SpecViews == InitMutate /\ [][NextViews]_vars

\* a status toggle and the fetch of a CSV together; the open modal covers
\* the grid, so the toggle is clicked before it opens
NextViewToggle ==
  \/ \E i \in 1..Len(loads) : LoadServer(i)
  \/ \E i \in 1..Len(loads) : LoadDone(i)
  \/ SetGroupByDate
  \/ ~modalOpen /\ \E r \in Range(renderedReports) : ToggleClick(r)
  \/ \E i \in 1..Len(toggleCalls) : ToggleServerRead(i)
  \/ \E i \in 1..Len(toggleCalls) : ToggleServerWrite(i)
  \/ \E i \in 1..Len(toggleCalls) : ToggleDone(i)
  \/ \E r \in Range(renderedReports) : ViewClick(r)
  \/ \E i \in 1..Len(csvCalls) : CsvServer(i)
  \/ \E i \in 1..Len(csvCalls) : CsvDone(i)
  \/ CloseModal

SpecViewToggle == InitMutate /\ [][NextViewToggle]_vars

\* the page sizes and pages of the flat grid and of the modal over the
\* reports of folder f1; the open modal covers the grid
NextPages ==
  \/ \E i \in 1..Len(loads) : LoadServer(i)
  \/ \E i \in 1..Len(loads) : LoadDone(i)
  \/ SetGroupByDate
  \/ ~modalOpen /\ \E size \in Range(PAGE_SIZE_OPTIONS) : SetGridPageSize(size)
  \/ ~modalOpen /\ GridFirst
  \/ ~modalOpen /\ GridPrevious
  \/ ~modalOpen /\ GridNext
  \/ ~modalOpen /\ GridLast
  \/ \E r \in Range(renderedReports) : ViewClick(r)
  \/ \E i \in 1..Len(csvCalls) : CsvServer(i)
  \/ \E i \in 1..Len(csvCalls) : CsvDone(i)
  \/ CloseModal
  \/ \E size \in Range(PAGE_SIZE_OPTIONS) : SetPageSize(size)
  \/ CsvFirst \/ CsvPrevious \/ CsvNext \/ CsvLast

SpecPages == Init /\ [][NextPages]_vars

\* the modal opened through handleViewReport on any rendered report
NextView ==
  \/ \E i \in 1..Len(loads) : LoadServer(i)
  \/ \E i \in 1..Len(loads) : LoadDone(i)
  \/ SetGroupByDate
  \/ \E r \in Range(renderedReports) : HandleViewReport(r)
  \/ \E i \in 1..Len(csvCalls) : CsvServer(i)
  \/ \E i \in 1..Len(csvCalls) : CsvRejected(i)
  \/ \E i \in 1..Len(csvCalls) : CsvDone(i)
  \/ CloseModal
  \/ \E filter \in CsvFilterInputs : SetCsvFilter(filter)
  \/ \E index \in 0..1 : CsvHeaderClick(index)
  \/ \E size \in Range(PAGE_SIZE_OPTIONS) : SetPageSize(size)
  \/ CsvFirst \/ CsvPrevious \/ CsvNext \/ CsvLast

SpecView == InitMutate /\ [][NextView]_vars

----------------------------------------------------------------------------
(* The pure functions of the pipeline, applied to bounded inputs *)

ReportIds == <<"r1", "r2", "r3", "r4", "r5", "r6", "r7">>

\* the record lists of at most MaxLen reports with the fields drawn from Fields;
\* the ids are distinct
ReportLists(Fields) ==
  {[i \in 1..Len(fs) |-> [id |-> ReportIds[i], name |-> fs[i].name,
                          isActive |-> fs[i].isActive, tags |-> fs[i].tags,
                          date |-> fs[i].date]] :
     fs \in UNION {[1..n -> Fields] : n \in 0..MaxLen}}

\* nothing in flight, the grid's controls at their defaults, no function applied
Quiet ==
  /\ store = InitialStructure
  /\ initialReports = <<>>
  /\ loads = <<>> /\ toggleCalls = <<>>
  /\ currentFolder = defaultFolder(InitialStructure)
  /\ isLoading = FALSE
  /\ expandedGroups = {}
  /\ newTag = <<>> /\ tagReportId = None
  /\ sortRun = 0
  /\ CsvIdle
  /\ FnIdle

fnUnchanged == UNCHANGED <<storeVars, gridVars, csvVars>>

FilterFields ==
  [name : {<<"A", "b">>, <<"b">>}, isActive : BOOLEAN,
   tags : {<<TagX>>, <<TagX, TagY>>}, date : {[d |-> 1, t |-> 0]}]

InitFilter ==
  /\ Quiet
  /\ reports \in ReportLists(FilterFields)
  /\ searchTerm \in {<<>>, <<"a">>, <<"B">>}
  /\ activeTagFilter \in {None, Some(<<>>), Some(TagX), Some(TagY)}
  /\ activeStatusFilter \in {None, Some(TRUE), Some(FALSE)}
  /\ sortState = [field |-> "null", direction |-> "null"]
  /\ groupByDate = FALSE /\ gridPageSize = "10" /\ gridCurrentPage = 1

ApplyFilter ==
  /\ fnOp = "none"
  /\ fnOp' = "filter"
  /\ fnOut' = filterReports(reports, searchTerm, activeTagFilter, activeStatusFilter)
  /\ fnUnchanged

SpecFilter == InitFilter /\ [][ApplyFilter]_vars

SortFields3 ==
  [name : {<<"a">>, <<"A">>, <<"B">>}, isActive : BOOLEAN,
   tags : {<<>>}, date : {[d |-> 1, t |-> 1], [d |-> 2, t |-> 0]}]

SortStates ==
  [field : SortFields, direction : {"asc", "desc"}]
    \cup {[field |-> "null", direction |-> "null"], [field |-> "name", direction |-> "null"]}

InitSort ==
  /\ Quiet
  /\ reports \in ReportLists(SortFields3)
  /\ sortState \in SortStates
  /\ searchTerm = <<>> /\ activeTagFilter = None /\ activeStatusFilter = None
  /\ groupByDate = FALSE /\ gridPageSize = "10" /\ gridCurrentPage = 1

ApplySort ==
  /\ fnOp = "none"
  /\ fnOp' = "sort"
  /\ fnOut' = sortReports(reports, sortState)
  /\ fnUnchanged

SpecSort == InitSort /\ [][ApplySort]_vars

PipelineFields ==
  [name : {<<"b">>, <<"A">>}, isActive : BOOLEAN, tags : {<<TagX>>},
   date : {[d |-> 1, t |-> 0]}]

InitPipeline ==
  /\ Quiet
  /\ reports \in ReportLists(PipelineFields)
  /\ searchTerm \in {<<>>, <<"a">>}
  /\ activeTagFilter \in {None, Some(TagY)}
  /\ activeStatusFilter \in {None, Some(TRUE)}
  /\ sortState \in {[field |-> "null", direction |-> "null"],
                    [field |-> "name", direction |-> "null"],
                    [field |-> "name", direction |-> "asc"]}
  /\ groupByDate \in BOOLEAN
  /\ gridPageSize \in {"All", "5"}
  /\ gridCurrentPage \in {1, 2}

\* what ReportGrid renders: the groups, or the page of the processed reports
ApplyPipeline ==
  /\ fnOp = "none"
  /\ fnOp' = "pipeline"
  /\ fnOut' = IF groupByDate THEN groupedReports
              ELSE paginate(processedReports, gridPageSize, gridCurrentPage)
  /\ fnUnchanged

SpecPipeline == InitPipeline /\ [][ApplyPipeline]_vars

GroupFields ==
  [name : {<<"a">>, <<"b">>}, isActive : BOOLEAN, tags : {<<TagX>>},
   date : {[d |-> 1, t |-> 0], [d |-> 1, t |-> 1], [d |-> 2, t |-> 0], [d |-> 3, t |-> 1]}]

InitGroup ==
  /\ Quiet
  /\ reports \in ReportLists(GroupFields)
  /\ searchTerm \in {<<>>, <<"B">>}
  /\ activeTagFilter = None
  /\ activeStatusFilter \in {None, Some(TRUE)}
  /\ sortState = [field |-> "null", direction |-> "null"]
  /\ groupByDate = TRUE /\ gridPageSize = "10" /\ gridCurrentPage = 1

ApplyGroup ==
  /\ fnOp = "none"
  /\ fnOp' = "group"
  /\ fnOut' = groupReportsByDate(reports, searchTerm, activeTagFilter, activeStatusFilter)
  /\ fnUnchanged

SpecGroup == InitGroup /\ [][ApplyGroup]_vars

\* a table of n rows: a digit and the two-digit row number
NumberedRows(n) ==
  [i \in 1..n |-> << <<Digits[(i % 10) + 1]>>, <<Digits[(i \div 10) + 1], Digits[(i % 10) + 1]>> >>]

\* the modal is open on a table of up to MaxRows rows, on any page size and
\* page; the grid behind it is at rest
InitPaginate ==
  /\ store = InitialStructure
  /\ initialReports = <<>>
  /\ loads = <<>> /\ toggleCalls = <<>> /\ csvCalls = <<>>
  /\ currentFolder = defaultFolder(InitialStructure)
  /\ isLoading = FALSE
  /\ expandedGroups = {}
  /\ newTag = <<>> /\ tagReportId = None
  /\ sortRun = 0
  /\ FnIdle
  /\ reports = <<>>
  /\ searchTerm = <<>> /\ activeTagFilter = None /\ activeStatusFilter = None
  /\ sortState = [field |-> "null", direction |-> "null"]
  /\ groupByDate = FALSE /\ gridPageSize = "10" /\ gridCurrentPage = 1
  /\ selectedReport = Some("r1")
  /\ \E n \in 0..MaxRows :
       csvData = Some([headers |-> << <<"k">>, <<"v">> >>, rows |-> NumberedRows(n)])
  /\ csvSortField = None /\ csvSortDirection = "null" /\ csvFilter = <<>>
  /\ pageSize \in Range(PAGE_SIZE_OPTIONS)
  /\ currentPage \in 1..MaxPage

\* getPaginatedData(csvData): the rows of the current page
ApplyPaginate ==
  /\ fnOp = "none"
  /\ fnOp' = "paginate"
  /\ fnOut' = paginate(The(csvData).rows, pageSize, currentPage)
  /\ fnUnchanged

SpecPaginate == InitPaginate /\ [][ApplyPaginate]_vars

\* the grid at rest over the first n reports of folder f1, flat, on page 1 of
\* any page size, with no filter and no sort; the modal is closed
InitNavGrid ==
  /\ Quiet
  /\ \E n \in 0..Len(reportsOfFolder(InitialStructure, "f1")) :
       reports = SubSeq(reportsOfFolder(InitialStructure, "f1"), 1, n)
  /\ searchTerm = <<>> /\ activeTagFilter = None /\ activeStatusFilter = None
  /\ sortState = [field |-> "null", direction |-> "null"]
  /\ groupByDate = FALSE
  /\ gridPageSize \in Range(PAGE_SIZE_OPTIONS)
  /\ gridCurrentPage = 1

\* the modal open on page 1 of a table of up to MaxRows rows, with no filter
\* and no sort, over the grid with its defaults
InitNavCsv ==
  /\ store = InitialStructure
  /\ initialReports = <<>>
  /\ loads = <<>> /\ toggleCalls = <<>> /\ csvCalls = <<>>
  /\ currentFolder = defaultFolder(InitialStructure)
  /\ isLoading = FALSE
  /\ newTag = <<>> /\ tagReportId = None
  /\ sortRun = 0
  /\ FnIdle
  /\ reports = reportsOfFolder(InitialStructure, "f1")
  /\ GridDefaults
  /\ selectedReport = Some("r1")
  /\ \E n \in 0..MaxRows :
       csvData = Some([headers |-> << <<"k">>, <<"v">> >>, rows |-> NumberedRows(n)])
  /\ csvSortField = None /\ csvSortDirection = "null" /\ csvFilter = <<>>
  /\ pageSize \in Range(PAGE_SIZE_OPTIONS)
  /\ currentPage = 1

InitNav == InitNavGrid \/ InitNavCsv

\* the navigation buttons alone: records, rows, filters and page sizes stay
NextNav ==
  \/ GridFirst \/ GridPrevious \/ GridNext \/ GridLast
  \/ CsvFirst \/ CsvPrevious \/ CsvNext \/ CsvLast

SpecNav == InitNav /\ [][NextNav]_vars

\* the lines a CSV text is made of: empty, blank, one cell, two cells, two
\* empty cells, padded cells, three cells
CsvLines ==
  {<<>>, <<" ">>, <<"a">>, <<"a", ",", "b">>, <<",">>, <<"b", ",", " ", "a">>,
   <<"a", ",", "b", ",">>}

\* a getReportCSV response with a text of up to MaxLines lines is waiting
InitParse ==
  /\ store = InitialStructure
  /\ initialReports = <<>>
  /\ loads = <<>> /\ toggleCalls = <<>>
  /\ currentFolder = defaultFolder(InitialStructure)
  /\ isLoading = FALSE
  /\ reports = reportsOfFolder(InitialStructure, "f1")
  /\ GridDefaults
  /\ FnIdle
  /\ selectedReport = None /\ csvData = None
  /\ csvSortField = None /\ csvSortDirection = "null"
  /\ csvFilter = <<>> /\ pageSize = "10" /\ currentPage = 1
  /\ \E n \in 1..MaxLines : \E lines \in [1..n -> CsvLines] :
       csvCalls = <<[id |-> "r1", pc |-> "response", data |-> text(lines)]>>

\* parseCSV(data) on the text of the response
ApplyParse ==
  /\ fnOp = "none"
  /\ fnOp' = "parseCSV"
  /\ fnOut' = parseCSV(csvCalls[1].data)
  /\ fnUnchanged

SpecParse == InitParse /\ [][ApplyParse]_vars

\* the rows a table is made of: a text cell and a number or text cell
TableRows ==
  {<< <<"a", "b", "c">>, <<"1">> >>,
   << <<"x", "y">>, <<"2">> >>,
   << <<"c", "a", "b">>, <<"3">> >>,
   << <<"A", "b">>, <<"1", "0">> >>,
   << <<"b">>, <<"x">> >>,
   << <<>>, <<"2">> >>}

\* the modal is open on a table of up to MaxLen rows, with a filter text and
\* a sort column or none
InitProcess ==
  /\ store = InitialStructure
  /\ initialReports = <<>>
  /\ loads = <<>> /\ toggleCalls = <<>> /\ csvCalls = <<>>
  /\ currentFolder = defaultFolder(InitialStructure)
  /\ isLoading = FALSE
  /\ reports = reportsOfFolder(InitialStructure, "f1")
  /\ GridDefaults
  /\ FnIdle
  /\ selectedReport = Some("r1")
  /\ \E n \in 0..MaxLen : \E rows \in [1..n -> TableRows] :
       csvData = Some([headers |-> << <<"k">>, <<"v">> >>, rows |-> rows])
  /\ csvFilter \in {<<>>, <<"a", "b">>, <<"B">>, <<"1">>}
  /\ \/ csvSortField = None /\ csvSortDirection = "null"
     \/ csvSortField \in {Some(0), Some(1)} /\ csvSortDirection \in {"asc", "desc"}
  /\ pageSize = "10" /\ currentPage = 1

\* getProcessedCsvData(csvData) in a render: csvData itself stays, the rows
\* are copied before they are filtered and sorted
ApplyProcess ==
  /\ fnOp = "none"
  /\ fnOp' = "process"
  /\ fnOut' = getProcessedCsvData(The(csvData), csvFilter, csvSortField, csvSortDirection)
  /\ fnUnchanged

SpecProcess == InitProcess /\ [][ApplyProcess]_vars

----------------------------------------------------------------------------
(* Claims about the pure functions *)

\* the three predicates of the filter, as section 4.1 states them
C8_matchesAll(report) ==
  /\ \/ searchTerm = <<>>
     \/ \E i \in 1..Len(report.name) : \E j \in i..Len(report.name) :
          toLowerCase(SubSeq(report.name, i, j)) = toLowerCase(searchTerm)
  /\ \/ activeTagFilter \in {None, Some(<<>>)}
     \/ \E k \in 1..Len(report.tags) : Some(report.tags[k]) = activeTagFilter
  /\ \/ activeStatusFilter = None
     \/ Some(report.isActive) = activeStatusFilter

\* C8: filterReports keeps a record iff it passes the search, the tag and the
\* status predicate, and the kept records are in their input order: the k-th
\* record of the result is the k-th matching record of the input.
C8_FilterKeepsMatchingInOrder ==
  fnOp = "filter" =>
    LET kept == {i \in 1..Len(reports) : C8_matchesAll(reports[i])}
    IN  /\ Len(fnOut) = Cardinality(kept)
        /\ \A i \in kept : fnOut[Cardinality({j \in kept : j <= i})] = reports[i]

\* C8 witness: all three filters set, the middle one of three records dropped
C8_Witness ==
  /\ fnOp = "filter"
  /\ searchTerm = <<"B">> /\ activeTagFilter = Some(TagY) /\ activeStatusFilter = Some(TRUE)
  /\ Len(reports) = 3
  /\ fnOut = <<reports[1], reports[3]>>
  /\ reports[1].name # reports[3].name

\* the order of two records under the sort key, as section 4.2 states it
C9_inOrder(a, b) ==
  LET before(x, y) ==
        CASE sortState.field = "name" -> localeCompare(x.name, y.name) <= 0
          [] sortState.field = "date" -> getTime(x.date) <= getTime(y.date)
          [] sortState.field = "status" -> ~x.isActive \/ y.isActive
  IN  IF sortState.direction = "asc" THEN before(a, b) ELSE before(b, a)

C9_sameKey(a, b) == C9_inOrder(a, b) /\ C9_inOrder(b, a)

C9_indexIn(seq, x) == CHOOSE i \in 1..Len(seq) : seq[i] = x

\* C9: with a field and a direction set, sortReports returns a permutation of
\* its input that is ordered by the key, keeps the input order of records
\* with equal keys, and is a fixed point of the same sort.
C9_SortIsOrderedStableIdempotent ==
  (fnOp = "sort" /\ sortState.field # "null" /\ sortState.direction # "null") =>
    /\ Len(fnOut) = Len(reports)
    /\ Range(fnOut) = Range(reports)
    /\ \A i \in 1..Len(fnOut) : \A j \in i..Len(fnOut) : C9_inOrder(fnOut[i], fnOut[j])
    /\ \A i \in 1..Len(reports) : \A j \in (i + 1)..Len(reports) :
         C9_sameKey(reports[i], reports[j]) =>
           C9_indexIn(fnOut, reports[i]) < C9_indexIn(fnOut, reports[j])
    /\ sortReports(fnOut, sortState) = fnOut

\* C9 witness: a descending sort moved a record in front of two records with
\* equal keys, which kept their order
C9_Witness ==
  /\ fnOp = "sort" /\ sortState.direction = "desc"
  /\ Len(reports) = 3
  /\ C9_sameKey(reports[1], reports[2])
  /\ fnOut = <<reports[3], reports[1], reports[2]>>

C10_neutral ==
  /\ searchTerm = <<>> /\ activeTagFilter = None /\ activeStatusFilter = None
  /\ (sortState.field = "null" \/ sortState.direction = "null")
  /\ ~groupByDate
  /\ gridPageSize = "All"

\* C10: with an empty search term, no tag and no status filter, no sort,
\* grouping off and page size 'All', the rendered rows are the record list
\* itself, in its order.
C10_NeutralControlsRenderInput ==
  (fnOp = "pipeline" /\ C10_neutral) => fnOut = reports

\* C10 witness: three records, not in name order, rendered as they are
C10_Witness ==
  /\ fnOp = "pipeline" /\ C10_neutral
  /\ Len(reports) = 3
  /\ localeCompare(reports[1].name, reports[2].name) > 0
  /\ fnOut = reports

----------------------------------------------------------------------------
(* Claims about the grid *)

\* the page count of the grid as section 4.4 defines it, over the records
\* that pass the filters
C1_totalPages ==
  LET n == Len(filterReports(reports, searchTerm, activeTagFilter, activeStatusFilter))
      pages == ceilDiv(n, pageSizeNumber(gridPageSize))
  IN  IF gridPageSize = "All" THEN 1 ELSE IF pages > 1 THEN pages ELSE 1

\* C1: gridCurrentPage is always within 1..totalPages, the page count of the
\* records that pass the current filters under the current page size.
C1_GridPageWithinFilteredPages ==
  gridCurrentPage >= 1 /\ gridCurrentPage <= C1_totalPages

C5_nextDirection(direction) ==
  CASE direction = "asc" -> "desc"
    [] direction = "desc" -> "null"
    [] direction = "null" -> "asc"

\* C5: a click on the sorted field moves its direction asc -> desc -> neutral
\* -> asc, a click on another field gives (that field, asc) whatever the
\* direction was, and the sort state names at most one field.
C5_SortToggleIsThreeStateCycle ==
  /\ [](/\ sortState.field \in SortFields \cup {"null"}
        /\ sortState.direction \in {"asc", "desc", "null"})
  /\ [][\A field \in SortFields :
          HandleSort(field) =>
            /\ sortState'.field = field
            /\ sortState'.direction =
                 IF sortState.field = field THEN C5_nextDirection(sortState.direction)
                 ELSE "asc"]_vars

\* C5 witness: status was clicked while another field was sorted descending
\* (no run from neutral), and status is now ascending
C5_Witness ==
  /\ sortState = [field |-> "status", direction |-> "asc"]
  /\ sortRun = 0

\* C7: after three clicks in a row on one sort header, started from a neutral
\* sort state with the reports and the filters unchanged in between, the
\* processed reports are the filtered reports in their unsorted order.
C7_ThreeClicksRestoreOrder ==
  sortRun = 3 =>
    processedReports =
      filterReports(reports, searchTerm, activeTagFilter, activeStatusFilter)

\* C7 witness: three clicks on Name done, over reports that the name sort
\* does reorder
C7_Witness ==
  /\ sortRun = 3 /\ sortState.field = "name"
  /\ Len(processedReports) = 6
  /\ sortReports(processedReports, [field |-> "name", direction |-> "asc"])
       # processedReports

----------------------------------------------------------------------------
(* Claims about mutations and the store *)

\* C3: when the persistence call of a status toggle fails (toggleReportStatus
\* did not write and answers false), the in-memory reports are left as they
\* were.
C3_FailedToggleLeavesReportsUnchanged ==
  [][\A i \in 1..Len(toggleCalls) :
       (ToggleDone(i) /\ ~toggleCalls[i].result) => reports' = reports]_vars

\* the tags of report reportId in the list rs
C4_tagsIn(rs, reportId) ==
  {rs[k].tags : k \in {j \in 1..Len(rs) : rs[j].id = reportId}}

\* C4: a tag add or tag remove is persisted before it is applied locally:
\* right after the handler, every entry of the store with the report's id
\* carries the tags of the local record, so a reload returns them.
C4_TagMutationsArePersisted ==
  [][\A r \in Range(reports) :
       (HandleAddTag(r) \/ \E tag \in Range(r.tags) : HandleRemoveTag(r, tag)) =>
         \A f \in 1..Len(store') :
           C4_tagsIn(store'[f].reports, r.id) \subseteq C4_tagsIn(reports', r.id)]_vars

----------------------------------------------------------------------------
(* Claims about the CSV modal *)

\* the page count of the modal as section 4.4 defines it, over the rows that
\* pass the CSV filter
C2_totalPages ==
  LET m == Len(getProcessedCsvData(The(csvData), csvFilter, csvSortField,
                                   csvSortDirection).rows)
      pages == ceilDiv(m, pageSizeNumber(pageSize))
  IN  IF pageSize = "All" THEN 1 ELSE IF pages > 1 THEN pages ELSE 1

\* C2: while the modal is open, currentPage is within 1..totalPages, the page
\* count of the rows that pass the current CSV filter under the page size.
C2_CsvPageWithinFilteredPages ==
  modalOpen => (currentPage >= 1 /\ currentPage <= C2_totalPages)

C6_nextDirection(direction) ==
  IF direction = "asc" THEN "desc" ELSE IF direction = "desc" THEN "null" ELSE "asc"

\* C6: a click on the sorted column's header moves it asc -> desc -> neutral
\* (-> asc), a click on another header gives (that column, asc), and in every
\* state csvSortField is null exactly when csvSortDirection is null.
C6_CsvSortToggleCycle ==
  /\ [](/\ csvSortField = None <=> csvSortDirection = "null"
        /\ csvSortDirection \in {"asc", "desc", "null"}
        /\ Cardinality(csvSortField) <= 1)
  /\ [][\A index \in 0..1 :
          CsvHeaderClick(index) =>
            IF csvSortField = Some(index)
            THEN /\ csvSortDirection' = C6_nextDirection(csvSortDirection)
                 /\ csvSortField' = IF csvSortDirection = "desc" THEN None
                                    ELSE Some(index)
            ELSE /\ csvSortField' = Some(index)
                 /\ csvSortDirection' = "asc"]_vars

\* C6 witness: the modal is open with its second column sorted descending, so
\* its header was clicked twice and the next click gives neutral
C6_Witness ==
  /\ modalOpen
  /\ csvSortField = Some(1) /\ csvSortDirection = "desc"
  /\ renderedRows # paginate(The(csvData).rows, pageSize, currentPage)

----------------------------------------------------------------------------
(* Claims about the grouped view *)

\* C11: in grouped view with a sort field and direction set, the records of
\* each date group are in the order of the active sort: the group is the
\* processed (filtered, then sorted) reports of that date.
C11_GroupsFollowActiveSort ==
  (groupByDate /\ sortState.field # "null" /\ sortState.direction # "null") =>
    \A g \in 1..Len(groupedReports) :
      groupedReports[g][2] =
        SelectSeq(processedReports, LAMBDA r : dateKey(r.date) = groupedReports[g][1])

\* the groups of fnOut that hold record r
C12_groupsOf(r) == {g \in 1..Len(fnOut) : arrayIncludes(fnOut[g][2], r)}

\* C12: every record that passes the filters is in exactly one group of
\* groupReportsByDate's result, once, and that group's key is the date
\* portion of the record's date; a record that fails the filters is in no
\* group; no group is empty.
C12_GroupingPartitionsTheFiltered ==
  fnOp = "group" =>
    LET passes(r) == filterKeeps(r, searchTerm, activeTagFilter, activeStatusFilter)
    IN  /\ \A i \in 1..Len(reports) :
             IF passes(reports[i])
             THEN /\ Cardinality(C12_groupsOf(reports[i])) = 1
                  /\ \A g \in C12_groupsOf(reports[i]) :
                       /\ fnOut[g][1] = reports[i].date.d
                       /\ Cardinality({k \in 1..Len(fnOut[g][2]) :
                                         fnOut[g][2][k] = reports[i]}) = 1
             ELSE C12_groupsOf(reports[i]) = {}
        /\ \A g \in 1..Len(fnOut) :
             /\ fnOut[g][2] # <<>>
             /\ Range(fnOut[g][2]) \subseteq Range(reports)

\* C12 witness: three records, the second fails the status filter, the other
\* two share a day at different times and make one group
C12_Witness ==
  /\ fnOp = "group"
  /\ Len(reports) = 3
  /\ activeStatusFilter = Some(TRUE) /\ ~reports[2].isActive
  /\ reports[1].date.d = reports[3].date.d /\ reports[1].date.t # reports[3].date.t
  /\ Len(fnOut) = 1 /\ fnOut[1][2] = <<reports[1], reports[3]>>

\* C13: the groups have pairwise distinct keys in strictly descending order,
\* and the records of a group are in the relative order of the input list.
C13_GroupsDescendingAndStable ==
  fnOp = "group" =>
    /\ \A g \in 1..Len(fnOut) : \A h \in (g + 1)..Len(fnOut) : fnOut[g][1] > fnOut[h][1]
    /\ \A g \in 1..Len(fnOut) :
         \A k \in 1..Len(fnOut[g][2]) : \A l \in (k + 1)..Len(fnOut[g][2]) :
           C9_indexIn(reports, fnOut[g][2][k]) < C9_indexIn(reports, fnOut[g][2][l])

\* C13 witness: the input starts with the oldest day, whose two records are
\* split by a record of a later day; the later day's group comes first
C13_Witness ==
  /\ fnOp = "group"
  /\ Len(reports) = 3
  /\ reports[1].date.d < reports[2].date.d /\ reports[3].date.d = reports[1].date.d
  /\ Len(fnOut) = 2
  /\ fnOut[1][2] = <<reports[2]>>
  /\ fnOut[2][2] = <<reports[1], reports[3]>>

RECURSIVE C14_concat(_)
C14_concat(pages) ==
  IF pages = <<>> THEN <<>> ELSE pages[1] \o C14_concat(SubSeq(pages, 2, Len(pages)))

\* the smaller of two numbers
C14_min(a, b) == IF a < b THEN a ELSE b

\* C14: with a numeric page size s the slice of page p is the elements at
\* offsets (p-1)*s up to p*s clipped to the sequence, and the slices of pages
\* 1..ceil(count/s), concatenated in order, are the whole sequence; with page
\* size 'All' the page is the whole sequence.
C14_PagesCoverTheSequenceOnce ==
  fnOp = "paginate" =>
    LET rows  == The(csvData).rows
        count == Len(rows)
    IN  IF pageSize = "All" THEN fnOut = rows
        ELSE LET s == pageSizeNumber(pageSize)
                 first == C14_min((currentPage - 1) * s, count)
                 last  == C14_min(currentPage * s, count)
                 pages == (count + s - 1) \div s
             IN  /\ Len(fnOut) = last - first
                 /\ \A k \in 1..Len(fnOut) : fnOut[k] = rows[first + k]
                 /\ C14_concat([p \in 1..pages |-> paginate(rows, pageSize, p)]) = rows

\* C14 witness: eleven rows at five per page, the third page holds the last
\* row alone
C14_Witness ==
  /\ fnOp = "paginate"
  /\ pageSize = "5" /\ currentPage = 3
  /\ Len(The(csvData).rows) = 11
  /\ fnOut = <<The(csvData).rows[11]>>

----------------------------------------------------------------------------
(* Claims about page counts and navigation *)

\* C15: the page count that the grid's controls use (the 'Page X of Y' label,
\* the disabling of Next and Last) is ceil(count / pageSize), at least 1, with
\* count the length of the sequence that is paginated: the processed
\* (filtered and sorted) reports.
C15_PageCountIsOfThePaginatedSequence ==
  gridControlsShown =>
    LET pages == ceilDiv(Len(processedReports), pageSizeNumber(gridPageSize))
    IN  gridLastPage = IF pages > 1 THEN pages ELSE 1

\* ceil(count / pageSize) of the grid's records and of the modal's rows, with
\* no filter active; 1 under page size 'All'
C16_gridPages ==
  IF gridPageSize = "All" THEN 1
  ELSE (Len(reports) + pageSizeNumber(gridPageSize) - 1) \div pageSizeNumber(gridPageSize)

C16_csvPages ==
  IF pageSize = "All" THEN 1
  ELSE (Len(The(csvData).rows) + pageSizeNumber(pageSize) - 1) \div pageSizeNumber(pageSize)

\* C16: with no filter and the records and the page size fixed, clicks on
\* First/Previous/Next/Last from page 1 keep the page within 1..ceil(count /
\* pageSize) (page 1 when there is nothing to page), First and Previous do
\* nothing on page 1, and Next and Last do nothing on the last page.
C16_NavigationStopsAtTheBoundaries ==
  /\ [](/\ gridCurrentPage >= 1
        /\ gridCurrentPage <= (IF C16_gridPages > 1 THEN C16_gridPages ELSE 1)
        /\ modalOpen =>
             /\ currentPage >= 1
             /\ currentPage <= (IF C16_csvPages > 1 THEN C16_csvPages ELSE 1))
  /\ [][/\ (GridFirst \/ GridPrevious) => gridCurrentPage > 1
        /\ (GridNext \/ GridLast) => gridCurrentPage < C16_gridPages
        /\ (CsvFirst \/ CsvPrevious) => currentPage > 1
        /\ (CsvNext \/ CsvLast) => currentPage < C16_csvPages]_vars

\* C16 witness: the modal is on the last of three pages, where Next and Last
\* are disabled
C16_Witness ==
  /\ modalOpen /\ csvFilter = <<>>
  /\ pageSize = "5" /\ Len(The(csvData).rows) = 11
  /\ currentPage = 3
  /\ ~ENABLED (CsvNext \/ CsvLast)

----------------------------------------------------------------------------
(* Claims about races *)

\* C17: in-flight folder loads are not cancelled: the response of a load for
\* a folder that is no longer the current one is applied like any other, so
\* when it arrives last (no other load in flight) the reports are that
\* folder's reports while the current folder is another one.
C17_StaleLoadOverwrites ==
  [][\A i \in 1..Len(loads) :
       (LoadDone(i) /\ loads[i].folder # currentFolder) =>
         /\ reports' = loads[i].data
         /\ currentFolder' = currentFolder
         /\ Len(loads) = 1 => loads' = <<>>]_vars

\* C17 witness: the folder went f2 -> f1 while the load of f2 was in flight,
\* f1's response came first, and now nothing is in flight: the current folder
\* is f1 and the reports are f2's
C17_Witness ==
  /\ loads = <<>> /\ ~isLoading
  /\ currentFolder = "f1"
  /\ reports = reportsOfFolder(store, "f2")
  /\ reports # reportsOfFolder(store, "f1")

\* the stored isActive values of the entries with another id than reportId
C18_othersIn(structure, reportId) ==
  UNION {{<<f, k, structure[f].reports[k].isActive>> :
            k \in {j \in 1..Len(structure[f].reports) :
                     structure[f].reports[j].id # reportId}} :
         f \in 1..Len(structure)}

\* C18: toggleReportStatus writes back the structure it read with its own
\* change alone: whatever another call wrote between this call's read and
\* its write is lost, the other reports having again the status that this
\* call read.
C18_LaterWriterRevertsTheOther ==
  [][\A i \in 1..Len(toggleCalls) :
       ToggleServerWrite(i) =>
         C18_othersIn(store', toggleCalls[i].id)
           = C18_othersIn(toggleCalls[i].snap, toggleCalls[i].id)]_vars

\* C18 witness: the toggles of r1 (to inactive) and of r2 (to active) both
\* read before either wrote and both answered true; r2's write came last and
\* the store has r1 active again
C18_Witness ==
  /\ Len(toggleCalls) = 2
  /\ \A i \in 1..2 : toggleCalls[i].pc = "response" /\ toggleCalls[i].result
  /\ toggleCalls[1].id = "r1" /\ ~toggleCalls[1].status
  /\ toggleCalls[2].id = "r2" /\ toggleCalls[2].status
  /\ store = withStatus(SmallStructure, "r2", TRUE)

----------------------------------------------------------------------------
(* Claims about the handlers of a row *)

\* the report with this id is in memory and active
C19_isActive(reportId) ==
  \E k \in 1..Len(reports) : reports[k].id = reportId /\ reports[k].isActive

\* C19: handleViewReport on a report whose isActive is false issues no
\* getReportCSV call and leaves selectedReport and csvData as they are, so
\* no call is in flight and no modal is open for an inactive report.
C19_InactiveReportIsNotFetched ==
  /\ [](/\ \A i \in 1..Len(csvCalls) : C19_isActive(csvCalls[i].id)
        /\ \A id \in selectedReport : C19_isActive(id))
  /\ [][\A r \in Range(reports) :
          (HandleViewReport(r) /\ ~r.isActive) =>
            UNCHANGED <<csvCalls, selectedReport, csvData>>]_vars

\* C19 witness: the handler was last invoked on the inactive report r2;
\* nothing is in flight and the modal is closed
C19_Witness ==
  /\ fnOp = "handleViewReport"
  /\ fnOut.id = "r2" /\ ~fnOut.isActive
  /\ csvCalls = <<>> /\ selectedReport = None /\ csvData = None

\* the tags list has no tag twice, no empty tag and no tag with outer spaces
C20_wellFormed(tags) ==
  /\ \A k \in 1..Len(tags) : \A l \in 1..Len(tags) : tags[k] = tags[l] => k = l
  /\ \A k \in 1..Len(tags) :
       /\ tags[k] # <<>>
       /\ tags[k][1] # " " /\ tags[k][Len(tags[k])] # " "

\* after is before without the tag, the other tags in their order
C20_without(before, after, tag) ==
  /\ Range(after) = Range(before) \ {tag}
  /\ Len(after) = Cardinality(Range(after))
  /\ \A k \in 1..Len(after) : \A l \in (k + 1)..Len(after) :
       (CHOOSE i \in 1..Len(before) : before[i] = after[k])
         < (CHOOSE i \in 1..Len(before) : before[i] = after[l])

\* C20: over duplicate-free loaded tags, every report's tags stay
\* duplicate-free and hold no blank tag; handleAddTag appends the trimmed tag
\* at the end unless the report has it, handleRemoveTag drops the tag and
\* keeps the others in their order, and both leave the other reports alone.
C20_TagsStayDuplicateFree ==
  /\ [](\A k \in 1..Len(reports) : C20_wellFormed(reports[k].tags))
  /\ [][\A r \in Range(reports) :
          /\ HandleAddTag(r) =>
               /\ Len(reports') = Len(reports)
               /\ \A k \in 1..Len(reports) :
                    reports'[k].tags =
                      IF reports[k].id = r.id /\ trim(newTag) \notin Range(reports[k].tags)
                      THEN reports[k].tags \o <<trim(newTag)>>
                      ELSE reports[k].tags
          /\ \A tag \in Range(r.tags) :
               HandleRemoveTag(r, tag) =>
                 /\ Len(reports') = Len(reports)
                 /\ \A k \in 1..Len(reports) :
                      IF reports[k].id = r.id
                      THEN C20_without(reports[k].tags, reports'[k].tags, tag)
                      ELSE reports'[k].tags = reports[k].tags]_vars

\* C20 witness: r1 was loaded with tag y; x was added after it and y was
\* removed, and r2 got x and then y, in that order
C20_Witness ==
  \E k \in 1..Len(reports) : \E l \in 1..Len(reports) :
    /\ reports[k].id = "r1" /\ reports[k].tags = <<TagX>>
    /\ reports[l].id = "r2" /\ reports[l].tags = <<TagX, TagY>>

----------------------------------------------------------------------------
(* Claims about the group controls *)

\* the date keys of the groups on display: the dates of the reports that
\* pass the filters
C21_displayedKeys ==
  {reports[i].date.d :
     i \in {j \in 1..Len(reports) :
              filterKeeps(reports[j], searchTerm, activeTagFilter, activeStatusFilter)}}

\* C21: right after expandAll the expanded keys are the keys of all groups
\* on display, right after collapseAll no key is expanded, and toggleGroup(k)
\* flips k and leaves every other key as it was.
C21_GroupControlsActUniformly ==
  [][/\ expandAll => expandedGroups' = C21_displayedKeys
     /\ collapseAll => expandedGroups' = {}
     /\ \A k \in C21_displayedKeys :
          toggleGroup(k) =>
            /\ k \in expandedGroups' <=> k \notin expandedGroups
            /\ expandedGroups' \ {k} = expandedGroups \ {k}]_vars

\* C21 witness: under the status filter 'inactive' only the later date has a
\* group, and it is the one expanded key
C21_Witness ==
  /\ groupByDate /\ ~isLoading
  /\ activeStatusFilter = Some(FALSE)
  /\ Cardinality({reports[i].date.d : i \in 1..Len(reports)}) = 2
  /\ C21_displayedKeys = {2}
  /\ expandedGroups = {2}

----------------------------------------------------------------------------
(* Claims about the CSV table *)

\* the trimmed cells of a line
C22_cells(line) == [k \in 1..Len(split(line, ",")) |-> trim(split(line, ",")[k])]

\* C22: every row of parseCSV's result has headers.length cells and a
\* non-empty cell; the rows are exactly the data lines with that cell count
\* and a cell that is non-empty after trimming, in their source order.
C22_ParsedRowsFitTheHeader ==
  fnOp = "parseCSV" =>
    LET lines == split(csvCalls[1].data, "\n")
        kept == {n \in 2..Len(lines) :
                   /\ Len(C22_cells(lines[n])) = Len(fnOut.headers)
                   /\ \E k \in 1..Len(C22_cells(lines[n])) : C22_cells(lines[n])[k] # <<>>}
    IN  /\ \A i \in 1..Len(fnOut.rows) :
             /\ Len(fnOut.rows[i]) = Len(fnOut.headers)
             /\ \E k \in 1..Len(fnOut.rows[i]) : fnOut.rows[i][k] # <<>>
        /\ Len(fnOut.rows) = Cardinality(kept)
        /\ \A n \in kept :
             fnOut.rows[Cardinality({m \in kept : m <= n})] = C22_cells(lines[n])

\* C22 witness: under a two-column header, a one-cell line and a line of two
\* empty cells are dropped between two rows that are kept in their order
C22_Witness ==
  /\ fnOp = "parseCSV"
  /\ csvCalls[1].data =
       text(<< <<"a", ",", "b">>, <<"b", ",", " ", "a">>, <<"a">>, <<",">>, <<"a", ",", "b">> >>)
  /\ fnOut.rows = << << <<"b">>, <<"a">> >>, << <<"a">>, <<"b">> >> >>

\* the row passes the CSV filter as section 4.5 states it: the filter is
\* empty or some cell contains it, case ignored
C23_matches(row) ==
  \/ csvFilter = <<>>
  \/ \E k \in 1..Len(row) : \E i \in 1..Len(row[k]) : \E j \in i..Len(row[k]) :
       toLowerCase(SubSeq(row[k], i, j)) = toLowerCase(csvFilter)

\* C23: getProcessedCsvData keeps exactly the rows that pass the filter (as
\* many of each as the table has); with no sort column they are in their
\* original order; csvData keeps its rows.
C23_CsvFilterKeepsMatchingRows ==
  /\ [](fnOp = "process" =>
          LET rows == The(csvData).rows
              kept == {n \in 1..Len(rows) : C23_matches(rows[n])}
          IN  /\ fnOut.headers = The(csvData).headers
              /\ Len(fnOut.rows) = Cardinality(kept)
              /\ \A row \in TableRows :
                   Cardinality({i \in 1..Len(fnOut.rows) : fnOut.rows[i] = row})
                     = Cardinality({n \in kept : rows[n] = row})
              /\ (csvSortField = None \/ csvSortDirection = "null") =>
                   \A n \in kept : fnOut.rows[Cardinality({m \in kept : m <= n})] = rows[n])
  /\ [][ApplyProcess => csvData' = csvData]_vars

\* C23 witness: the filter 'ab' over the rows abc, xy, cab keeps the first
\* and the third, in that order
C23_Witness ==
  /\ fnOp = "process"
  /\ csvFilter = <<"a", "b">> /\ csvSortField = None
  /\ The(csvData).rows = << << <<"a", "b", "c">>, <<"1">> >>,
                            << <<"x", "y">>, <<"2">> >>,
                            << <<"c", "a", "b">>, <<"3">> >> >>
  /\ fnOut.rows = << << <<"a", "b", "c">>, <<"1">> >>, << <<"c", "a", "b">>, <<"3">> >> >>

----------------------------------------------------------------------------
(* Claims about failures *)

\* C24: a failed read during report loading gives an empty list and no error
\* escapes: getReportFolders after a failed read of structure.json has not
\* thrown and returned [], and a per-folder load of an unknown folder
\* answers [].
C24_LoadFailuresGiveEmptyResults ==
  /\ (fnOp = "getReportFolders" /\ fnOut.failed) =>
       (~fnOut.threw /\ fnOut.value = <<>>)
  /\ \A i \in 1..Len(loads) :
       (loads[i].pc = "response" /\ loads[i].folder \notin FolderIds) =>
         loads[i].data = <<>>

\* new is old with nothing changed but the given field of the records whose
\* id is reportId: same length, same order, same other fields
C25_sameBut(old, new, reportId, field) ==
  /\ Len(new) = Len(old)
  /\ \A k \in 1..Len(old) :
       IF old[k].id = reportId
       THEN new[k] = [old[k] EXCEPT ![field] = new[k][field]]
       ELSE new[k] = old[k]

\* C25: the mutations never delete or reorder records. A step that changes
\* the in-memory reports without a load completing changes only the isActive
\* of the report of the completing toggle call, or only the tags of one
\* rendered report; a step that changes the store writes what the call read
\* with only the isActive of the entries of its id changed, in every folder.
C25_MutationsKeepTheRecords ==
  [][ /\ (reports' # reports /\ loads' = loads) =>
           IF toggleCalls' # toggleCalls
           THEN \E i \in 1..Len(toggleCalls) :
                  C25_sameBut(reports, reports', toggleCalls[i].id, "isActive")
           ELSE \E r \in Range(renderedReports) :
                  C25_sameBut(reports, reports', r.id, "tags")
      /\ store' # store =>
           \E i \in 1..Len(toggleCalls) :
             /\ toggleCalls[i].pc = "write"
             /\ Len(store') = Len(toggleCalls[i].snap)
             /\ \A f \in 1..Len(store') :
                  /\ store'[f] = [toggleCalls[i].snap[f] EXCEPT !.reports = store'[f].reports]
                  /\ C25_sameBut(toggleCalls[i].snap[f].reports, store'[f].reports,
                                 toggleCalls[i].id, "isActive")
    ]_vars

\* r1 was toggled off in memory and in both folders of the store and lost
\* its tag, and r2 was given a tag
C25_Witness ==
  /\ ~isLoading /\ Len(reports) = 2
  /\ reports[1].id = "r1" /\ ~reports[1].isActive /\ reports[1].tags = <<>>
  /\ reports[2].id = "r2" /\ reports[2].tags # <<>>
  /\ \A f \in 1..Len(store) : \A k \in 1..Len(store[f].reports) :
       store[f].reports[k].id = "r1" => ~store[f].reports[k].isActive

----------------------------------------------------------------------------
(* Claims about the modal's lifecycle *)

\* the detail-view controls are neutral in the next state
C26_neutral ==
  /\ csvSortField' = None /\ csvSortDirection' = "null"
  /\ csvFilter' = <<>>
  /\ currentPage' = 1

----------------------------------------------------------------------------
(* Claims about calls in flight together *)

\* C27: the in-memory and the persisted status agree: when no load and no
\* handleToggleActive call is in flight, and no read or write has failed,
\* every report in memory has the isActive stored for its id in the folder
\* shown, also after two clicks made before the first call returned.
C27_MemoryAgreesWithStore ==
  (toggleCalls = <<>> /\ loads = <<>> /\ ~isLoading) =>
    \A k \in 1..Len(reports) :
      \A f \in 1..Len(store) : \A e \in 1..Len(store[f].reports) :
        (store[f].id = currentFolder /\ store[f].reports[e].id = reports[k].id) =>
          reports[k].isActive = store[f].reports[e].isActive

\* C28: the CSV modal is only ever open for an active report: whenever
\* selectedReport is set, the report of that id in memory is active, also
\* when a toggle of that report and the fetch started by View overlap.
C28_ModalOnlyForActiveReport ==
  selectedReport # None =>
    \A k \in 1..Len(reports) :
      reports[k].id = The(selectedReport) => reports[k].isActive

----------------------------------------------------------------------------
(* Claims about the controls *)

\* C29: the active tag filter is always selectable: it is null or a tag
\* carried by at least one of the reports in memory, also after the reports
\* were replaced by a folder load.
C29_TagFilterIsSelectable ==
  activeTagFilter = None \/ The(activeTagFilter) \in getAllTags(reports)

\* C30: changing a page size resets its page and nothing of the other pair:
\* a step that changes gridPageSize leaves gridCurrentPage at 1, a step that
\* changes pageSize leaves currentPage at 1, and no step changes the grid's
\* pair and the modal's pair together.
C30_PageSizeResetsItsOwnPage ==
  [][ /\ gridPageSize' # gridPageSize =>
           (gridCurrentPage' = 1 /\ UNCHANGED <<pageSize, currentPage>>)
      /\ pageSize' # pageSize =>
           (currentPage' = 1 /\ UNCHANGED <<gridPageSize, gridCurrentPage>>)
      /\ <<gridPageSize, gridCurrentPage>>' # <<gridPageSize, gridCurrentPage>> =>
           UNCHANGED <<pageSize, currentPage>>
    ]_vars

\* the grid was put on 5 rows and moved to page 2, and the modal opened from
\* there was put on 50 rows, which left it on page 1
C30_Witness ==
  /\ modalOpen
  /\ gridPageSize = "5" /\ gridCurrentPage = 2
  /\ pageSize = "50" /\ currentPage = 1

=============================================================================
